---------------------------- MODULE Spec2Model ----------------------------
(***************************************************************************)
(* Elysium community plugin validator (scripts/validate.js) and directory  *)
(* builder, as a state machine.                                            *)
(*                                                                         *)
(* Representation of JavaScript values.  A JS value is a record [t, v]:    *)
(* t is the type tag, v a sequence.  A string's v is the sequence of its   *)
(* pieces (single characters for identifiers, versions and URLs; the       *)
(* colon-separated parts for permission tokens; whole literals for the     *)
(* fixed parts of messages), so that concatenation is \o.  An array's v is *)
(* the sequence of its elements (strings, as piece sequences).             *)
(***************************************************************************)
EXTENDS Integers, Sequences, FiniteSets, TLC

VARIABLES
    tables,     \* the module-level policy arrays of validate.js
    result,     \* the ValidationResult under construction
    frame,      \* validatePlugin's locals: filename, submission, manifest
    pc,         \* where the control flow of the running entry point stands
    fetch,      \* the fetchFromGitHub / fetchManifest call in progress
    net,        \* every retrieval attempt made so far, in order
    args,       \* process.argv.slice(2): the submission files to validate
    pluginsDir, \* the local plugins/ directory
    argi,       \* index of the argument the for-loop of main is at
    results,    \* main's results array
    exit,       \* the process's exit status, -1 while it runs
    output,     \* the document written to validation-result.json
    plugins,    \* the builder's plugins array
    errors,     \* the builder's errors array
    directory,  \* the document written to plugins.json
    clock,      \* the time new Date() reads
    remote,     \* what the host answers to each request
    engine,     \* which argument of the sort comparator the later element is
    runs        \* what each earlier run of the builder left behind

vars == <<tables, result, frame, pc, fetch, net, args, pluginsDir, argi,
          results, exit, output, plugins, errors, directory, clock, remote,
          engine, runs>>

\* the variables only the builder writes
buildVars == <<plugins, errors, directory, clock, remote, engine, runs>>

---------------------------------------------------------------------------
(* JavaScript values *)

Undefined == [t |-> "undefined", v |-> <<>>]
Null == [t |-> "null", v |-> <<>>]
Str(s) == [t |-> "string", v |-> s]
Num(n) == [t |-> "number", v |-> <<n>>]
Arr(a) == [t |-> "array", v |-> a]

\* JS truthiness: undefined, null, "" and 0 are falsy; arrays are truthy.
Truthy(x) ==
    CASE x.t = "undefined" -> FALSE
      [] x.t = "null" -> FALSE
      [] x.t = "string" -> x.v # <<>>
      [] x.t = "number" -> x.v # <<0>>
      [] OTHER -> TRUE

\* a === b
StrictEq(a, b) == a.t = b.t /\ a.v = b.v

RECURSIVE Join(_, _)
\* Array.prototype.join on an array of strings: the pieces of the elements
\* with the separator between neighbours.
Join(a, sep) ==
    IF a = <<>> THEN <<>>
    ELSE IF Len(a) = 1 THEN a[1]
    ELSE a[1] \o <<sep>> \o Join(Tail(a), sep)

\* Array.prototype.filter is SelectSeq: the elements passing the test, in
\* order, duplicates kept.

\* Array.prototype.includes
Includes(a, x) == \E i \in 1..Len(a) : a[i] = x

---------------------------------------------------------------------------
(* Character classes and string helpers *)

Lower ==
    {"a", "b", "c", "d", "e", "f", "g", "h", "i", "j", "k", "l", "m", "n",
     "o", "p", "q", "r", "s", "t", "u", "v", "w", "x", "y", "z"}
Upper ==
    {"A", "B", "C", "D", "E", "F", "G", "H", "I", "J", "K", "L", "M", "N",
     "O", "P", "Q", "R", "S", "T", "U", "V", "W", "X", "Y", "Z"}
Digit == {"0", "1", "2", "3", "4", "5", "6", "7", "8", "9"}

RECURSIVE Split(_, _)
\* String.prototype.split(sep) for a one-character separator: the parts
\* between separators; always at least one part, parts may be empty.
Split(s, sep) ==
    IF \A i \in 1..Len(s) : s[i] # sep THEN <<s>>
    ELSE LET k == CHOOSE i \in 1..Len(s) :
                      s[i] = sep /\ \A j \in 1..(i - 1) : s[j] # sep
         IN <<SubSeq(s, 1, k - 1)>> \o Split(SubSeq(s, k + 1, Len(s)), sep)

RECURSIVE Span(_, _, _)
\* The index just past the longest run of characters of class C that
\* starts at index i of s (a greedy C* from i).
Span(s, i, C) ==
    IF i <= Len(s) /\ s[i] \in C THEN Span(s, i + 1, C) ELSE i

\* s has the characters of t at index i.
HasAt(s, i, t) ==
    /\ i >= 1
    /\ i + Len(t) - 1 <= Len(s)
    /\ SubSeq(s, i, i + Len(t) - 1) = t

EndsWith(s, t) == Len(s) >= Len(t) /\ HasAt(s, Len(s) - Len(t) + 1, t)

---------------------------------------------------------------------------
(* parseGitHubUrl, isValidPluginId, isValidSemver *)

HostMarker == <<"g", "i", "t", "h", "u", "b", ".", "c", "o", "m", "/">>
DotGit == <<".", "g", "i", "t">>

\* /github\.com\/([^\/]+)\/([^\/]+)/ tried at index i of url: the marker,
\* a non-empty run without "/", a "/", a non-empty run without "/".
MatchAt(url, i) ==
    LET o == i + Len(HostMarker)
        oe == Span(url, o, {url[k] : k \in 1..Len(url)} \ {"/"})
        re == Span(url, oe + 1, {url[k] : k \in 1..Len(url)} \ {"/"})
    IN IF /\ HasAt(url, i, HostMarker)
          /\ oe > o
          /\ oe <= Len(url) /\ url[oe] = "/"
          /\ re > oe + 1
       THEN [ok |-> TRUE, owner |-> SubSeq(url, o, oe - 1),
             repo |-> SubSeq(url, oe + 1, re - 1)]
       ELSE [ok |-> FALSE, owner |-> <<>>, repo |-> <<>>]

\* repo.replace(/\.git$/, '')
StripDotGit(r) ==
    IF EndsWith(r, DotGit) THEN SubSeq(r, 1, Len(r) - Len(DotGit)) ELSE r

parseGitHubUrl_KeepsDotGit(url) ==
    IF \E i \in 1..Len(url) : MatchAt(url, i).ok
    THEN LET i == CHOOSE k \in 1..Len(url) :
                      /\ MatchAt(url, k).ok
                      /\ \A j \in 1..(k - 1) : ~MatchAt(url, j).ok
             m == MatchAt(url, i)
         IN [ok |-> TRUE, owner |-> m.owner, repo |-> m.repo]
    ELSE [ok |-> FALSE, owner |-> <<>>, repo |-> <<>>]

\* parseGitHubUrl(url) for a string url: [ok |-> FALSE] stands for null.
parseGitHubUrl(url) ==
    IF \E i \in 1..Len(url) : MatchAt(url, i).ok
    THEN LET i == CHOOSE k \in 1..Len(url) :
                      /\ MatchAt(url, k).ok
                      /\ \A j \in 1..(k - 1) : ~MatchAt(url, j).ok
             m == MatchAt(url, i)
         IN [ok |-> TRUE, owner |-> m.owner, repo |-> StripDotGit(m.repo)]
    ELSE [ok |-> FALSE, owner |-> <<>>, repo |-> <<>>]

\* /^[a-z0-9][a-z0-9-]*[a-z0-9]$|^[a-z0-9]$/.test(part)
partPattern_EdgeHyphen(part) ==
    /\ Len(part) >= 1
    /\ \A i \in 1..Len(part) : part[i] \in Lower \cup Digit \cup {"-"}

partPattern(part) ==
    /\ Len(part) >= 1
    /\ part[1] \in Lower \cup Digit
    /\ part[Len(part)] \in Lower \cup Digit
    /\ \A i \in 1..Len(part) : part[i] \in Lower \cup Digit \cup {"-"}

\* isValidPluginId(id) for a string id.
isValidPluginId(id) ==
    LET parts == Split(id, ".")
    IN IF Len(parts) < 2 THEN FALSE
       ELSE \A i \in 1..Len(parts) : partPattern(parts[i])

SemverTail == Lower \cup Upper \cup Digit \cup {".", "-"}

\* (\+[a-zA-Z0-9.-]+)?$ from index i of s
BuildToEnd(s, i) ==
    \/ i = Len(s) + 1
    \/ /\ i <= Len(s) /\ s[i] = "+"
       /\ Span(s, i + 1, SemverTail) > i + 1
       /\ Span(s, i + 1, SemverTail) = Len(s) + 1

isValidSemver_Unanchored(s) ==
    LET a == Span(s, 1, Digit)
        b == Span(s, a + 1, Digit)
        c == Span(s, b + 1, Digit)
    IN /\ a > 1 /\ a <= Len(s) /\ s[a] = "."
       /\ b > a + 1 /\ b <= Len(s) /\ s[b] = "."
       /\ c > b + 1

\* /^\d+\.\d+\.\d+(-[a-zA-Z0-9.-]+)?(\+[a-zA-Z0-9.-]+)?$/.test(version)
\* for a string version.
isValidSemver(s) ==
    LET a == Span(s, 1, Digit)
        b == Span(s, a + 1, Digit)
        c == Span(s, b + 1, Digit)
        d == Span(s, c + 1, SemverTail)
    IN /\ a > 1 /\ a <= Len(s) /\ s[a] = "."
       /\ b > a + 1 /\ b <= Len(s) /\ s[b] = "."
       /\ c > b + 1
       /\ \/ BuildToEnd(s, c)
          \/ /\ c <= Len(s) /\ s[c] = "-"
             /\ d > c + 1
             /\ BuildToEnd(s, d)

---------------------------------------------------------------------------
(* Static policy tables *)

REQUIRED_SUBMISSION_FIELDS == <<"id", "name", "description", "author", "repo">>

REQUIRED_MANIFEST_FIELDS ==
    <<"id", "name", "version", "minAppVersion", "author", "description",
      "main", "permissions">>

Scoped(scope, name) == <<scope, ":", name>>

VALID_PERMISSIONS ==
    << Scoped("read", "goals"), Scoped("read", "tasks"),
       Scoped("read", "habits"), Scoped("read", "odysseys"),
       Scoped("read", "appointments"), Scoped("read", "reminders"),
       Scoped("read", "categories"), Scoped("read", "tags"),
       Scoped("read", "timeline"), Scoped("read", "settings"),
       Scoped("read", "schedules"),
       Scoped("write", "goals"), Scoped("write", "tasks"),
       Scoped("write", "habits"), Scoped("write", "odysseys"),
       Scoped("write", "appointments"), Scoped("write", "reminders"),
       Scoped("write", "categories"), Scoped("write", "tags"),
       Scoped("write", "timeline"), Scoped("write", "settings"),
       <<"notifications">>, <<"shortcuts">>, <<"network">>, <<"clipboard">>,
       <<"filesystem">>, <<"theme">>, Scoped("customize", "ui") >>

DANGEROUS_PERMISSIONS_NoSettings ==
    << Scoped("write", "goals"), Scoped("write", "tasks"),
       Scoped("write", "habits"), Scoped("write", "odysseys"),
       Scoped("write", "appointments"), Scoped("write", "reminders"),
       Scoped("write", "categories"), Scoped("write", "tags"),
       Scoped("write", "timeline"),
       <<"network">>, <<"filesystem">>, <<"theme">>, Scoped("customize", "ui") >>

DANGEROUS_PERMISSIONS ==
    << Scoped("write", "goals"), Scoped("write", "tasks"),
       Scoped("write", "habits"), Scoped("write", "odysseys"),
       Scoped("write", "appointments"), Scoped("write", "reminders"),
       Scoped("write", "categories"), Scoped("write", "tags"),
       Scoped("write", "timeline"), Scoped("write", "settings"),
       <<"network">>, <<"filesystem">>, <<"theme">>, Scoped("customize", "ui") >>

\* CONTRIBUTING.md, Available Permissions: the permissions listed under
\* "Write Permissions (requires justification)" and "Special Permissions
\* (requires justification)"
REQUIRES_JUSTIFICATION ==
    { Scoped("write", "goals"), Scoped("write", "tasks"),
      Scoped("write", "habits"), Scoped("write", "odysseys"),
      Scoped("write", "appointments"), Scoped("write", "reminders"),
      Scoped("write", "categories"), Scoped("write", "tags"),
      Scoped("write", "timeline"), Scoped("write", "settings"),
      <<"notifications">>, <<"shortcuts">>, <<"network">>, <<"clipboard">>,
      <<"filesystem">>, <<"theme">>, Scoped("customize", "ui") }

---------------------------------------------------------------------------
(* Pattern scanner.  A source text is a sequence of lexical pieces: words  *)
(* (identifiers, keywords), blanks and punctuation; two adjacent word      *)
(* pieces read as one longer word.                                         *)

WordPieces == {"eval", "new", "Function", "fetch", "innerHTML",
               "document.write", "x"}
Blank == {" "}

\* \b in front of the word piece at index i
BoundaryBefore(text, i) == i = 1 \/ text[i - 1] \notin WordPieces

\* /\beval\s*\(/
Match_eval(text) ==
    \E i \in 1..Len(text) :
        /\ text[i] = "eval" /\ BoundaryBefore(text, i)
        /\ HasAt(text, Span(text, i + 1, Blank), <<"(">>)

\* /\bnew\s+Function\s*\(/
Match_newFunction(text) ==
    \E i \in 1..Len(text) :
        LET j == Span(text, i + 1, Blank)
        IN /\ text[i] = "new" /\ BoundaryBefore(text, i)
           /\ j > i + 1
           /\ HasAt(text, j, <<"Function">>)
           /\ HasAt(text, Span(text, j + 1, Blank), <<"(">>)

\* /document\.write/
Match_documentWrite(text) ==
    \E i \in 1..Len(text) : text[i] = "document.write"

\* /innerHTML\s*=/
Match_innerHTML(text) ==
    \E i \in 1..Len(text) :
        /\ text[i] = "innerHTML"
        /\ HasAt(text, Span(text, i + 1, Blank), <<"=">>)

\* /\bfetch\s*\([^)]*\$\{/
Match_dynamicFetch(text) ==
    \E i \in 1..Len(text) :
        LET j == Span(text, i + 1, Blank)
        IN /\ text[i] = "fetch" /\ BoundaryBefore(text, i)
           /\ HasAt(text, j, <<"(">>)
           /\ \E k \in (j + 1)..Len(text) :
                  /\ text[k] = "${"
                  /\ \A m \in (j + 1)..(k - 1) : text[m] # ")"

DANGEROUS_PATTERNS ==
    << [pattern |-> "eval", name |-> "eval()"],
       [pattern |-> "newFunction", name |-> "new Function()"],
       [pattern |-> "documentWrite", name |-> "document.write"],
       [pattern |-> "innerHTML", name |-> "innerHTML assignment"],
       [pattern |-> "dynamicFetch", name |-> "dynamic fetch URL"] >>

\* pattern.test(mainJs); the patterns carry no g flag, so test keeps no
\* lastIndex between calls.
PatternTest(pattern, text) ==
    CASE pattern = "eval" -> Match_eval(text)
      [] pattern = "newFunction" -> Match_newFunction(text)
      [] pattern = "documentWrite" -> Match_documentWrite(text)
      [] pattern = "innerHTML" -> Match_innerHTML(text)
      [] pattern = "dynamicFetch" -> Match_dynamicFetch(text)

TheTables ==
    [valid |-> VALID_PERMISSIONS, dangerous |-> DANGEROUS_PERMISSIONS,
     patterns |-> DANGEROUS_PATTERNS]

---------------------------------------------------------------------------
(* ValidationResult *)

\* constructor(pluginId)
NewValidationResult(pluginId) ==
    [pluginId |-> pluginId, passed |-> TRUE, checks |-> <<>>,
     warnings |-> <<>>, errors |-> <<>>, manifest |-> Null]

addCheck_NoFlag(r, name, passed, details) ==
    [r EXCEPT !.checks = Append(@, [name |-> name, passed |-> passed,
                                    details |-> details])]

\* addCheck(name, passed, details = null)
addCheck(r, name, passed, details) ==
    [r EXCEPT !.checks = Append(@, [name |-> name, passed |-> passed,
                                    details |-> details]),
              !.passed = IF ~passed THEN FALSE ELSE @]

\* addWarning(message)
addWarning(r, message) == [r EXCEPT !.warnings = Append(@, message)]

\* addError(message)
addError(r, message) ==
    [r EXCEPT !.errors = Append(@, message), !.passed = FALSE]

---------------------------------------------------------------------------
(* JSON documents and objects.  A file's content is a document: malformed  *)
(* text, or the text of a JSON value.  An object is a JS value of type     *)
(* "object" whose v is the record of its own properties.                   *)

Malformed == [kind |-> "malformed", val |-> Undefined]
Json(val) == [kind |-> "json", val |-> val]
Obj(fields) == [t |-> "object", v |-> fields]

\* x[f]: a property read.  Reading a property of null or undefined throws;
\* callers test Nullish first.
Nullish(x) == x.t \in {"null", "undefined"}
Get(x, f) ==
    IF x.t = "object" /\ f \in DOMAIN x.v THEN x.v[f] ELSE Undefined

\* the strings of an array of field names, for join
Names(fs) == [i \in 1..Len(fs) |-> <<fs[i]>>]

---------------------------------------------------------------------------
(* validatePlugin, first part: lines 209-254, up to the manifest fetch.    *)
(* A pipeline state is [k, r, e]: k = "run" while the function is still    *)
(* executing, "return" once it has returned r, "throw" once it has thrown  *)
(* e.  Every step leaves a state that no longer runs as it is.             *)

Run(r) == [k |-> "run", r |-> r, e |-> <<>>]
Return(r) == [k |-> "return", r |-> r, e |-> <<>>]
Throw(r, e) == [k |-> "throw", r |-> r, e |-> e]

\* filename.replace('.json', ''): the first ".json" piece removed
StripJson(filename) ==
    IF \E i \in 1..Len(filename) : filename[i] = ".json"
    THEN LET k == CHOOSE i \in 1..Len(filename) :
                      /\ filename[i] = ".json"
                      /\ \A j \in 1..(i - 1) : filename[j] # ".json"
         IN SubSeq(filename, 1, k - 1) \o SubSeq(filename, k + 1, Len(filename))
    ELSE filename

\* Check 1: Valid JSON (lines 213-221)
Check_ValidJSON(st, doc) ==
    IF st.k # "run" THEN st
    ELSE IF doc.kind = "json"
         THEN Run(addCheck(st.r, "Valid JSON", TRUE, Null))
         ELSE Return(addCheck(st.r, "Valid JSON", FALSE,
                              Str(<<"Unexpected token">>)))

MissingFields(obj, required) ==
    SelectSeq(required, LAMBDA f : ~Truthy(Get(obj, f)))

\* Check 2: Required fields (lines 224-232)
Check_RequiredFields(st, submission) ==
    IF st.k # "run" THEN st
    ELSE IF Nullish(submission)
         THEN Throw(st.r, <<"Cannot read properties of null">>)
    ELSE LET missingFields ==
                 MissingFields(submission, REQUIRED_SUBMISSION_FIELDS)
         IN IF Len(missingFields) > 0
            THEN Return(addCheck(st.r, "Required fields", FALSE,
                     Str(<<"missing: ">> \o Join(Names(missingFields), ", "))))
            ELSE Run([addCheck(st.r, "Required fields", TRUE, Null)
                         EXCEPT !.pluginId = Get(submission, "id")])

PluginIdFormatDetail ==
    Str(<<"must be reverse domain notation (e.g., com.author.name)">>)

Check_PluginIdFormat_NoHalt(st, submission) ==
    IF st.k # "run" THEN st
    ELSE IF Get(submission, "id").t # "string"
         THEN Throw(st.r, <<"id.split is not a function">>)
    ELSE IF ~isValidPluginId(Get(submission, "id").v)
         THEN Run(addCheck(st.r, "Plugin ID format", FALSE,
                           PluginIdFormatDetail))
         ELSE Run(addCheck(st.r, "Plugin ID format", TRUE, Null))

\* Check 3: Plugin ID format (lines 235-239)
Check_PluginIdFormat(st, submission) ==
    IF st.k # "run" THEN st
    ELSE IF Get(submission, "id").t # "string"
         THEN Throw(st.r, <<"id.split is not a function">>)
    ELSE IF ~isValidPluginId(Get(submission, "id").v)
         THEN Return(addCheck(st.r, "Plugin ID format", FALSE,
                              PluginIdFormatDetail))
         ELSE Run(addCheck(st.r, "Plugin ID format", TRUE, Null))

Check_FilenameMatches_Halts(st, filename, submission) ==
    IF st.k # "run" THEN st
    ELSE LET expectedFilename == Get(submission, "id").v \o <<".json">>
         IN IF filename # expectedFilename
            THEN Return(addCheck(st.r, "Filename matches ID", FALSE,
                                 Str(<<"expected ">> \o expectedFilename)))
            ELSE Run(addCheck(st.r, "Filename matches ID", TRUE, Null))

\* Check 4: Filename matches plugin ID (lines 242-247)
Check_FilenameMatches(st, filename, submission) ==
    IF st.k # "run" THEN st
    ELSE LET expectedFilename == Get(submission, "id").v \o <<".json">>
         IN IF filename # expectedFilename
            THEN Run(addCheck(st.r, "Filename matches ID", FALSE,
                              Str(<<"expected ">> \o expectedFilename)))
            ELSE Run(addCheck(st.r, "Filename matches ID", TRUE, Null))

\* checkDuplicate(pluginId, pluginsDir) for a readable directory: some
\* *.json file of it parses to a value whose id is pluginId.  A file that
\* does not parse, or parses to null, is skipped by the catch.
checkDuplicate(pluginId, dir) ==
    \E i \in 1..Len(dir.files) :
        LET file == dir.files[i]
        IN /\ EndsWith(file.filename, <<".json">>)
           /\ file.doc.kind = "json"
           /\ ~Nullish(file.doc.val)
           /\ StrictEq(Get(file.doc.val, "id"), pluginId)

DuplicateWarning ==
    <<"Plugin ID already exists - this will update the existing entry">>

\* Check 5: duplicates (lines 250-254); readdirSync throws on a directory
\* that cannot be read.
Check_Duplicate(st, submission, dir) ==
    IF st.k # "run" THEN st
    ELSE IF ~dir.readable
         THEN Throw(st.r, <<"ENOENT: no such file or directory, scandir">>)
    ELSE IF checkDuplicate(Get(submission, "id"), dir)
         THEN Run(addWarning(st.r, DuplicateWarning))
         ELSE st

\* lines 209-254
ValidateLocal(file, dir) ==
    LET submission == file.doc.val
        s0 == Run(NewValidationResult(Str(StripJson(file.filename))))
        s1 == Check_ValidJSON(s0, file.doc)
        s2 == Check_RequiredFields(s1, submission)
        s3 == Check_PluginIdFormat(s2, submission)
        s4 == Check_FilenameMatches(s3, file.filename, submission)
    IN Check_Duplicate(s4, submission, dir)

---------------------------------------------------------------------------
(* fetchFromGitHub (validate.js) and fetchManifest (builder).  A call is   *)
(* the record below; a recursive fallback call continues the same record.  *)
(* A body is what a successful response's text() yields: the document it   *)
(* parses to, its lexical pieces and its length in characters.             *)

Body(doc, text, length) == [doc |-> doc, text |-> text, length |-> length]
NoBody == Body(Malformed, <<>>, 0)

NoFetch ==
    [fn |-> "none", repoUrl |-> Undefined, filePath |-> <<>>,
     branch0 |-> "none", branch |-> "none", state |-> "idle",
     attempts |-> <<>>, value |-> NoBody, error |-> <<>>]

\* fetchFromGitHub(repoUrl, filePath, branch) / fetchManifest(repoUrl, branch)
Call(fn, repoUrl, filePath, branch) ==
    [fn |-> fn, repoUrl |-> repoUrl, filePath |-> filePath,
     branch0 |-> branch, branch |-> branch, state |-> "called",
     attempts |-> <<>>, value |-> NoBody, error |-> <<>>]

\* String(x) for the values the model holds
JsToString(x) ==
    CASE x.t = "string" -> x.v
      [] x.t = "number" -> <<ToString(x.v[1])>>
      [] x.t = "array" -> Join(x.v, ",")
      [] OTHER -> <<x.t>>

Reject(f, e) == [f EXCEPT !.state = "rejected", !.error = e]

\* lines 148-155 (31-38 of the builder): parse the URL, build the raw URL
\* and issue the request; url.match throws on a value that is no string.
Begin(f) ==
    IF f.repoUrl.t # "string"
    THEN Reject(f, <<"url.match is not a function">>)
    ELSE IF ~parseGitHubUrl(f.repoUrl.v).ok
    THEN Reject(f, <<"Invalid GitHub URL: ">> \o f.repoUrl.v)
    ELSE [f EXCEPT !.state = "pending"]

\* the request fetch(rawUrl) names
Request(f) ==
    [owner |-> parseGitHubUrl(f.repoUrl.v).owner,
     repo |-> parseGitHubUrl(f.repoUrl.v).repo,
     branch |-> f.branch, filePath |-> f.filePath]

FailedToFetch(f, status) ==
    IF f.fn = "fetchManifest"
    THEN <<"Failed to fetch manifest: ", ToString(status)>>
    ELSE <<"Failed to fetch ">> \o f.filePath \o <<": ", ToString(status)>>

Attempt(f, status) ==
    [f EXCEPT !.attempts = Append(@, [branch |-> f.branch, status |-> status])]

OnNotOk_NoFallback(f, status) ==
    Reject(Attempt(f, status), FailedToFetch(f, status))

\* lines 156-162 (39-45): the response is not ok
OnNotOk(f, status) ==
    IF f.branch = "main"
    THEN [Attempt(f, status) EXCEPT !.state = "called", !.branch = "master"]
    ELSE Reject(Attempt(f, status), FailedToFetch(f, status))

\* line 164: return response.text(); line 47 of the builder:
\* return JSON.parse(await response.text())
OnOk(f, status, body) ==
    IF f.fn = "fetchManifest" /\ body.doc.kind # "json"
    THEN Reject(Attempt(f, status), <<"Unexpected token">>)
    ELSE [Attempt(f, status) EXCEPT !.state = "resolved", !.value = body]

\* fetch(rawUrl) itself rejects (no response: DNS, connection, timeout);
\* the rejection leaves the function at line 155 (38) at once.  The attempt
\* is logged with status 0.
OnTransportError(f) == Reject(Attempt(f, 0), <<"fetch failed">>)

Settled(f) == f.state \in {"resolved", "rejected"}

---------------------------------------------------------------------------
(* validatePlugin, second part: lines 256-322, from the manifest fetch to  *)
(* the entry-file fetch.                                                   *)

Check_RepoAccessible_NoHalt(st, f) ==
    IF st.k # "run" THEN st
    ELSE IF f.state = "rejected"
         THEN Run(addCheck(st.r, "Repo accessible", FALSE, Str(f.error)))
    ELSE IF f.value.doc.kind # "json"
         THEN Run(addCheck(st.r, "Repo accessible", FALSE,
                           Str(<<"Unexpected token">>)))
    ELSE Run([addCheck(addCheck(st.r, "Repo accessible", TRUE, Null),
                       "Manifest found", TRUE, Null)
                 EXCEPT !.manifest = f.value.doc.val])

Check_RepoAccessible_NotAttached(st, f) ==
    IF st.k # "run" THEN st
    ELSE IF f.state = "rejected"
         THEN Return(addCheck(st.r, "Repo accessible", FALSE, Str(f.error)))
    ELSE IF f.value.doc.kind # "json"
         THEN Return(addCheck(st.r, "Repo accessible", FALSE,
                              Str(<<"Unexpected token">>)))
    ELSE Run(addCheck(addCheck(st.r, "Repo accessible", TRUE, Null),
                      "Manifest found", TRUE, Null))

\* Check 6: Repo accessible and has manifest (lines 257-267)
Check_RepoAccessible(st, f) ==
    IF st.k # "run" THEN st
    ELSE IF f.state = "rejected"
         THEN Return(addCheck(st.r, "Repo accessible", FALSE, Str(f.error)))
    ELSE IF f.value.doc.kind # "json"
         THEN Return(addCheck(st.r, "Repo accessible", FALSE,
                              Str(<<"Unexpected token">>)))
    ELSE Run([addCheck(addCheck(st.r, "Repo accessible", TRUE, Null),
                       "Manifest found", TRUE, Null)
                 EXCEPT !.manifest = f.value.doc.val])

Check_ManifestValid_NoHalt(st, manifest) ==
    IF st.k # "run" THEN st
    ELSE IF Nullish(manifest)
         THEN Throw(st.r, <<"Cannot read properties of null">>)
    ELSE LET missingManifestFields ==
                 MissingFields(manifest, REQUIRED_MANIFEST_FIELDS)
         IN IF Len(missingManifestFields) > 0
            THEN Run(addCheck(st.r, "Manifest valid", FALSE,
                     Str(<<"missing: ">>
                         \o Join(Names(missingManifestFields), ", "))))
            ELSE Run(addCheck(st.r, "Manifest valid", TRUE, Null))

\* Check 7: Manifest has required fields (lines 270-275)
Check_ManifestValid(st, manifest) ==
    IF st.k # "run" THEN st
    ELSE IF Nullish(manifest)
         THEN Throw(st.r, <<"Cannot read properties of null">>)
    ELSE LET missingManifestFields ==
                 MissingFields(manifest, REQUIRED_MANIFEST_FIELDS)
         IN IF Len(missingManifestFields) > 0
            THEN Return(addCheck(st.r, "Manifest valid", FALSE,
                     Str(<<"missing: ">>
                         \o Join(Names(missingManifestFields), ", "))))
            ELSE Run(addCheck(st.r, "Manifest valid", TRUE, Null))

\* Check 8: IDs match (lines 278-282)
Check_IDsMatch(st, manifest, submission) ==
    IF st.k # "run" THEN st
    ELSE IF ~StrictEq(Get(manifest, "id"), Get(submission, "id"))
         THEN Run(addCheck(st.r, "IDs match", FALSE,
                  Str(<<"submission: ">> \o JsToString(Get(submission, "id"))
                      \o <<", manifest: ">>
                      \o JsToString(Get(manifest, "id")))))
         ELSE Run(addCheck(st.r, "IDs match", TRUE, Null))

\* Check 9: Version format (lines 285-289); RegExp.test converts its
\* argument to a string.
Check_VersionFormat(st, manifest) ==
    IF st.k # "run" THEN st
    ELSE IF ~isValidSemver(JsToString(Get(manifest, "version")))
         THEN Run(addCheck(st.r, "Version format", FALSE,
                  Str(JsToString(Get(manifest, "version"))
                      \o <<" is not valid semver">>)))
         ELSE Run(addCheck(st.r, "Version format", TRUE,
                           Get(manifest, "version")))

invalidPermissions_First(permissions, tb) ==
    LET inv == SelectSeq(permissions, LAMBDA p : ~Includes(tb.valid, p))
    IN IF inv = <<>> THEN inv ELSE <<inv[1]>>

\* manifest.permissions.filter(p => !VALID_PERMISSIONS.includes(p))
invalidPermissions(permissions, tb) ==
    SelectSeq(permissions, LAMBDA p : ~Includes(tb.valid, p))

\* Check 10: Permissions are valid (lines 292-297); permissions is truthy
\* here, and filter exists on arrays only.
Check_ValidPermissions(st, manifest, tb) ==
    IF st.k # "run" THEN st
    ELSE IF Get(manifest, "permissions").t # "array"
         THEN Throw(st.r, <<"manifest.permissions?.filter is not a function">>)
    ELSE LET inv == invalidPermissions(Get(manifest, "permissions").v, tb)
         IN IF Len(inv) > 0
            THEN Run(addCheck(st.r, "Valid permissions", FALSE,
                              Str(<<"invalid: ">> \o Join(inv, ", "))))
            ELSE Run(addCheck(st.r, "Valid permissions", TRUE, Null))

dangerousUsed_First(permissions, tb) ==
    LET d == SelectSeq(permissions, LAMBDA p : Includes(tb.dangerous, p))
    IN IF d = <<>> THEN d ELSE <<d[1]>>

\* manifest.permissions.filter(p => DANGEROUS_PERMISSIONS.includes(p))
dangerousUsed(permissions, tb) ==
    SelectSeq(permissions, LAMBDA p : Includes(tb.dangerous, p))

\* The backquote character of the messages (a TLA+ string cannot hold it).
Tick == "<backquote>"
TickCommaTick == "<backquote>, <backquote>"

DangerousWarning(used) ==
    <<"Plugin requests dangerous permissions: ", Tick>>
        \o Join(used, TickCommaTick)
        \o <<Tick, " - please document why these are needed">>

\* Dangerous-permission advisory (lines 302-305)
Warn_Dangerous(st, manifest, tb) ==
    IF st.k # "run" THEN st
    ELSE IF Get(manifest, "permissions").t # "array"
         THEN Throw(st.r, <<"manifest.permissions?.filter is not a function">>)
    ELSE LET used == dangerousUsed(Get(manifest, "permissions").v, tb)
         IN IF Len(used) > 0
            THEN Run(addWarning(st.r, DangerousWarning(used)))
            ELSE st

HelpUrlWarning ==
    <<"Consider adding a ", Tick, "helpUrl", Tick, " for documentation">>
CategoryWarning ==
    <<"Consider adding a ", Tick, "category", Tick,
      " for better discoverability">>

\* Optional-field advisories (lines 308-313)
Warn_OptionalFields(st, manifest) ==
    IF st.k # "run" THEN st
    ELSE LET r1 == IF ~Truthy(Get(manifest, "helpUrl"))
                   THEN addWarning(st.r, HelpUrlWarning) ELSE st.r
             r2 == IF ~Truthy(Get(manifest, "category"))
                   THEN addWarning(r1, CategoryWarning) ELSE r1
         IN Run(r2)

CountWarning(n) ==
    <<"Plugin requests ", ToString(n),
      " permissions - consider if all are necessary">>

Warn_PermissionCount_FromFive(st, manifest) ==
    IF st.k # "run" THEN st
    ELSE IF Len(Get(manifest, "permissions").v) >= 5
         THEN Run(addWarning(st.r,
                      CountWarning(Len(Get(manifest, "permissions").v))))
         ELSE st

\* Permission-count advisory (lines 316-318)
Warn_PermissionCount(st, manifest) ==
    IF st.k # "run" THEN st
    ELSE IF Len(Get(manifest, "permissions").v) > 5
         THEN Run(addWarning(st.r,
                      CountWarning(Len(Get(manifest, "permissions").v))))
         ELSE st

\* lines 256-318
ValidateManifest(r, f, submission, tb) ==
    LET s6 == Check_RepoAccessible(Run(r), f)
        manifest == f.value.doc.val
        s7 == Check_ManifestValid(s6, manifest)
        s8 == Check_IDsMatch(s7, manifest, submission)
        s9 == Check_VersionFormat(s8, manifest)
        s10 == Check_ValidPermissions(s9, manifest, tb)
        s11 == Warn_Dangerous(s10, manifest, tb)
        s12 == Warn_OptionalFields(s11, manifest)
    IN Warn_PermissionCount(s12, manifest)

---------------------------------------------------------------------------
(* validatePlugin, last part: lines 320-339, the source scan.              *)

SizeWarning(length) ==
    <<"Main script is large (", ToString((2 * length + 1024) \div 2048),
      "KB) - consider code splitting">>

PatternWarning(name) ==
    <<"Found potentially dangerous pattern: ", Tick, name, Tick,
      " - please document its use">>

RECURSIVE ScanPatterns_StopAtFirst(_, _, _)
ScanPatterns_StopAtFirst(r, patterns, text) ==
    IF patterns = <<>> THEN r
    ELSE IF PatternTest(patterns[1].pattern, text)
         THEN addWarning(r, PatternWarning(patterns[1].name))
         ELSE ScanPatterns_StopAtFirst(r, Tail(patterns), text)

RECURSIVE ScanPatterns(_, _, _)
\* the loop of lines 330-334 over the patterns table from index 1
ScanPatterns(r, patterns, text) ==
    IF patterns = <<>> THEN r
    ELSE ScanPatterns(
             IF PatternTest(patterns[1].pattern, text)
             THEN addWarning(r, PatternWarning(patterns[1].name)) ELSE r,
             Tail(patterns), text)

ScanSource_SilentFailure(r, f, tb) ==
    IF f.state = "rejected" THEN Return(r)
    ELSE Return(ScanPatterns(r, tb.patterns, f.value.text))

\* lines 321-339
ScanSource(r, f, tb) ==
    IF f.state = "rejected"
    THEN Return(addCheck(r, "Main script accessible", FALSE, Str(f.error)))
    ELSE LET mainJs == f.value
             r1 == IF mainJs.length > 1024 * 1024
                   THEN addWarning(r, SizeWarning(mainJs.length)) ELSE r
         IN Return(ScanPatterns(r1, tb.patterns, mainJs.text))

---------------------------------------------------------------------------
(* main (lines 345-385) and the steps between its suspension points.       *)

NoFrame == [filename |-> <<>>, submission |-> Undefined]
NoOutput == [written |-> FALSE, allPassed |-> FALSE, results |-> <<>>]

\* path.basename(file, '.json'): the extension removed when the name ends
\* with it
Basename(filename, ext) ==
    IF Len(filename) > 1 /\ EndsWith(filename, <<ext>>)
    THEN SubSeq(filename, 1, Len(filename) - 1) ELSE filename

\* lines 364-369: the result main records when validatePlugin has thrown
ErrorResult(filename, e) ==
    addError(NewValidationResult(Str(Basename(filename, ".json"))),
             <<"Validation failed: ">> \o e)

\* lines 348-351: no arguments, usage and exit(1); else enter the loop
Main_Start ==
    /\ pc = "start"
    /\ IF Len(args) = 0
       THEN pc' = "exited" /\ exit' = 1
       ELSE pc' = "loop" /\ UNCHANGED exit
    /\ UNCHANGED buildVars
    /\ UNCHANGED <<tables, result, frame, fetch, net, args, pluginsDir,
                   argi, results, output>>

\* toMarkdown (lines 76-121): line 116 calls join on manifest.permissions
\* whenever the manifest is truthy and its permissions are neither null nor
\* undefined; a value that is no array has no join, and the call throws.
toMarkdownThrows(r) ==
    /\ Truthy(r.manifest)
    /\ ~Nullish(Get(r.manifest, "permissions"))
    /\ Get(r.manifest, "permissions").t # "array"

JoinIsNotAFunction == <<"this.manifest.permissions?.join is not a function">>

\* lines 359-369: what the loop body pushes to results once validatePlugin
\* has returned or thrown.  A returned result is pushed before its report is
\* printed; when toMarkdown throws there, the catch pushes an error result
\* for the same argument.
Pushed(st, filename) ==
    IF st.k = "return"
    THEN IF toMarkdownThrows(st.r)
         THEN <<st.r, ErrorResult(filename, JoinIsNotAFunction)>>
         ELSE <<st.r>>
    ELSE <<ErrorResult(filename, st.e)>>

\* validatePlugin has returned or thrown: lines 359-369, and the loop moves
\* to the next argument.
Finish(st, filename) ==
    /\ result' = st.r
    /\ results' = results \o Pushed(st, filename)
    /\ argi' = argi + 1
    /\ pc' = "loop"
    /\ frame' = NoFrame

\* the loop takes its next argument and validatePlugin runs to its first
\* await (lines 356-359, 209-259)
Validate_Begin ==
    /\ pc = "loop"
    /\ argi <= Len(args)
    /\ LET file == args[argi]
           st == ValidateLocal(file, pluginsDir)
       IN IF st.k = "run"
          THEN /\ result' = st.r
               /\ frame' = [filename |-> file.filename,
                            submission |-> file.doc.val]
               /\ fetch' = Call("fetchFromGitHub", Get(file.doc.val, "repo"),
                                <<"manifest.json">>, "main")
               /\ pc' = "manifest"
               /\ UNCHANGED <<results, argi>>
          ELSE Finish(st, file.filename) /\ UNCHANGED fetch
    /\ UNCHANGED buildVars
    /\ UNCHANGED <<tables, net, args, pluginsDir, exit, output>>

\* the called function runs up to its fetch
Fetch_Begin ==
    /\ fetch.state = "called"
    /\ fetch' = Begin(fetch)
    /\ net' = IF fetch'.state = "pending"
              THEN Append(net, [arg |-> argi, req |-> Request(fetch)])
              ELSE net
    /\ UNCHANGED buildVars
    /\ UNCHANGED <<tables, result, frame, pc, args, pluginsDir, argi,
                   results, exit, output>>

\* the host answers with a status that is not ok
Fetch_NotOk(U) ==
    /\ fetch.state = "pending"
    /\ \E status \in U.notOk : fetch' = OnNotOk(fetch, status)
    /\ UNCHANGED buildVars
    /\ UNCHANGED <<tables, result, frame, pc, net, args, pluginsDir, argi,
                   results, exit, output>>

\* the host answers 200 with the file's text
Fetch_Ok(U) ==
    /\ fetch.state = "pending"
    /\ \E body \in (IF fetch.filePath = <<"manifest.json">>
                    THEN U.manifests ELSE U.sources) :
           fetch' = OnOk(fetch, 200, body)
    /\ UNCHANGED buildVars
    /\ UNCHANGED <<tables, result, frame, pc, net, args, pluginsDir, argi,
                   results, exit, output>>

\* the transport fails
Fetch_TransportError ==
    /\ fetch.state = "pending"
    /\ fetch' = OnTransportError(fetch)
    /\ UNCHANGED buildVars
    /\ UNCHANGED <<tables, result, frame, pc, net, args, pluginsDir, argi,
                   results, exit, output>>

Validate_Manifest_SameBranch ==
    /\ pc = "manifest"
    /\ Settled(fetch)
    /\ LET st == ValidateManifest(result, fetch, frame.submission, tables)
       IN IF st.k = "run"
          THEN /\ result' = st.r
               /\ fetch' = Call("fetchFromGitHub",
                                Get(frame.submission, "repo"),
                                JsToString(Get(fetch.value.doc.val, "main")),
                                fetch.branch)
               /\ pc' = "entry"
               /\ UNCHANGED <<frame, results, argi>>
          ELSE Finish(st, frame.filename) /\ UNCHANGED fetch
    /\ UNCHANGED buildVars
    /\ UNCHANGED <<tables, net, args, pluginsDir, exit, output>>

\* validatePlugin resumes after the manifest fetch and runs to the
\* entry-file fetch (lines 259-322)
Validate_Manifest ==
    /\ pc = "manifest"
    /\ Settled(fetch)
    /\ LET st == ValidateManifest(result, fetch, frame.submission, tables)
       IN IF st.k = "run"
          THEN /\ result' = st.r
               /\ fetch' = Call("fetchFromGitHub",
                                Get(frame.submission, "repo"),
                                JsToString(Get(fetch.value.doc.val, "main")),
                                "main")
               /\ pc' = "entry"
               /\ UNCHANGED <<frame, results, argi>>
          ELSE Finish(st, frame.filename) /\ UNCHANGED fetch
    /\ UNCHANGED buildVars
    /\ UNCHANGED <<tables, net, args, pluginsDir, exit, output>>

\* validatePlugin resumes after the entry-file fetch and returns
\* (lines 322-339)
Validate_Scan ==
    /\ pc = "entry"
    /\ Settled(fetch)
    /\ Finish(ScanSource(result, fetch, tables), frame.filename)
    /\ UNCHANGED buildVars
    /\ UNCHANGED <<tables, fetch, net, args, pluginsDir, exit, output>>

AllPassed_First(rs) == rs = <<>> \/ rs[1].passed

\* results.every(r => r.passed)
AllPassed(rs) == \A i \in 1..Len(rs) : rs[i].passed

\* lines 373-384: write validation-result.json and exit.  Building the
\* markdown (line 376) calls toMarkdown on every result; when it throws,
\* main rejects and the handler of lines 387-390 exits with 1, nothing
\* written.
Main_Finish ==
    /\ pc = "loop"
    /\ argi > Len(args)
    /\ IF \E i \in 1..Len(results) : toMarkdownThrows(results[i])
       THEN /\ exit' = 1
            /\ UNCHANGED output
       ELSE /\ output' = [written |-> TRUE, allPassed |-> AllPassed(results),
                          results |-> results]
            /\ exit' = IF AllPassed(results) THEN 0 ELSE 1
    /\ pc' = "exited"
    /\ UNCHANGED buildVars
    /\ UNCHANGED <<tables, result, frame, fetch, net, args, pluginsDir,
                   argi, results>>

Next(U) ==
    \/ Main_Start
    \/ Validate_Begin
    \/ Fetch_Begin
    \/ Fetch_NotOk(U)
    \/ Fetch_Ok(U)
    \/ Fetch_TransportError
    \/ Validate_Manifest
    \/ Validate_Scan
    \/ Main_Finish

\* the builder's variables while the builder does not run
NoDirectory == [written |-> FALSE, generatedAt |-> 0, plugins |-> <<>>]
NoRemote == <<>>
BuilderIdle ==
    /\ plugins = <<>>
    /\ errors = <<>>
    /\ directory = NoDirectory
    /\ clock = 0
    /\ remote = NoRemote
    /\ engine = "laterFirst"
    /\ runs = <<>>

\* the state when node starts main with the given arguments and directory
InitWith(argLists, dirs) ==
    /\ BuilderIdle
    /\ tables = TheTables
    /\ result = NewValidationResult(Str(<<>>))
    /\ frame = NoFrame
    /\ pc = "start"
    /\ fetch = NoFetch
    /\ net = <<>>
    /\ args \in argLists
    /\ pluginsDir \in dirs
    /\ argi = 1
    /\ results = <<>>
    /\ exit = -1
    /\ output = NoOutput

---------------------------------------------------------------------------
(* The directory builder: buildDirectory, lines 53-131 of the builder.     *)

LowerSeq ==
    <<"a", "b", "c", "d", "e", "f", "g", "h", "i", "j", "k", "l", "m", "n",
      "o", "p", "q", "r", "s", "t", "u", "v", "w", "x", "y", "z">>
UpperSeq ==
    <<"A", "B", "C", "D", "E", "F", "G", "H", "I", "J", "K", "L", "M", "N",
      "O", "P", "Q", "R", "S", "T", "U", "V", "W", "X", "Y", "Z">>

\* the collation weights of a character: its letter's place in the
\* alphabet (0 for what is no letter), and its case, lower before upper
Primary(c) ==
    IF c \in Lower \cup Upper
    THEN CHOOSE i \in 1..26 : LowerSeq[i] = c \/ UpperSeq[i] = c
    ELSE 0
Tertiary(c) == IF c \in Upper THEN 1 ELSE 0

\* -1, 0 or 1 as the sequence of numbers s is before, equal to or after t
\* in lexicographic order
LexCompare(s, t) ==
    LET n == IF Len(s) < Len(t) THEN Len(s) ELSE Len(t)
        d == {i \in 1..n : s[i] # t[i]}
    IN IF d = {}
       THEN (IF Len(s) < Len(t) THEN -1 ELSE IF Len(s) > Len(t) THEN 1 ELSE 0)
       ELSE LET k == CHOOSE i \in d : \A j \in d : i <= j
            IN IF s[k] < t[k] THEN -1 ELSE 1

\* x.localeCompare(y) for strings of letters: the letters decide, and the
\* case only between strings of the same letters
localeCompare(x, y) ==
    LET p == LexCompare([i \in 1..Len(x) |-> Primary(x[i])],
                        [i \in 1..Len(y) |-> Primary(y[i])])
    IN IF p # 0 THEN p
       ELSE LexCompare([i \in 1..Len(x) |-> Tertiary(x[i])],
                       [i \in 1..Len(y) |-> Tertiary(y[i])])

\* the string localeCompare makes of its argument
NameString(x) ==
    CASE x.t = "string" -> x.v
      [] x.t = "undefined" -> <<"u", "n", "d", "e", "f", "i", "n", "e", "d">>
      [] x.t = "null" -> <<"n", "u", "l", "l">>
      [] OTHER -> JsToString(x)

\* line 105, (a, b) => a.name.localeCompare(b.name), called for an element
\* and a later one.  eng says which of the two the engine passes as a.
\* The call throws when a.name is no string; greater says that the earlier
\* element sorts after the later one.
Compare(eng, earlier, later) ==
    LET a == IF eng = "laterFirst" THEN later ELSE earlier
        b == IF eng = "laterFirst" THEN earlier ELSE later
        c == localeCompare(a.name.v, NameString(b.name))
    IN IF a.name.t # "string"
       THEN [throws |-> TRUE, greater |-> FALSE]
       ELSE [throws |-> FALSE,
             greater |-> IF eng = "laterFirst" THEN c < 0 ELSE c > 0]

RECURSIVE Insert(_, _, _)
\* x put into the sorted sequence seq, behind every element that does not
\* sort after it
Insert(eng, seq, x) ==
    IF seq = <<>> THEN [throws |-> FALSE, v |-> <<x>>]
    ELSE LET last == seq[Len(seq)]
             c == Compare(eng, last, x)
         IN IF c.throws THEN [throws |-> TRUE, v |-> seq]
            ELSE IF c.greater
            THEN LET r == Insert(eng, SubSeq(seq, 1, Len(seq) - 1), x)
                 IN [throws |-> r.throws, v |-> Append(r.v, last)]
            ELSE [throws |-> FALSE, v |-> Append(seq, x)]

Sort_AsListed(eng, seq) == [throws |-> FALSE, v |-> seq]

RECURSIVE Sort(_, _)
\* plugins.sort(comparator): a stable sort, the elements inserted one after
\* the other; throws when a call of the comparator throws.
Sort(eng, seq) ==
    IF Len(seq) < 2 THEN [throws |-> FALSE, v |-> seq]
    ELSE LET front == Sort(eng, SubSeq(seq, 1, Len(seq) - 1))
         IN IF front.throws THEN front
            ELSE Insert(eng, front.v, seq[Len(seq)])

REQUIRED_ENTRY_FIELDS ==
    <<"id", "name", "description", "author", "version", "minAppVersion",
      "repo", "permissions">>
OPTIONAL_ENTRY_FIELDS ==
    <<"authorUrl", "helpUrl", "fundingUrl", "supportLinks", "tags", "category">>

\* ...(manifest.f && { f: manifest.f }): the field when it is truthy;
\* undefined stands for a property the entry does not have
Optional(manifest, f) ==
    IF Truthy(Get(manifest, f)) THEN Get(manifest, f) ELSE Undefined

\* lines 75-93: the directory entry of a manifest; reading a property of
\* a manifest that is null throws
Entry(manifest, submission, now) ==
    IF Nullish(manifest)
    THEN [throws |-> TRUE, e |-> <<"Cannot read properties of null">>,
          v |-> Undefined]
    ELSE [throws |-> FALSE, e |-> <<>>,
          v |-> [id |-> Get(manifest, "id"),
                 name |-> Get(manifest, "name"),
                 description |-> Get(manifest, "description"),
                 author |-> Get(manifest, "author"),
                 version |-> Get(manifest, "version"),
                 minAppVersion |-> Get(manifest, "minAppVersion"),
                 repo |-> Get(submission, "repo"),
                 permissions |-> IF Truthy(Get(manifest, "permissions"))
                                 THEN Get(manifest, "permissions")
                                 ELSE Arr(<<>>),
                 authorUrl |-> Optional(manifest, "authorUrl"),
                 helpUrl |-> Optional(manifest, "helpUrl"),
                 fundingUrl |-> Optional(manifest, "fundingUrl"),
                 supportLinks |-> Optional(manifest, "supportLinks"),
                 tags |-> Optional(manifest, "tags"),
                 category |-> Optional(manifest, "category"),
                 updatedAt |-> now]]

\* line 57: the .json files of the plugins directory, as readdirSync
\* lists them
Files(dir) ==
    SelectSeq(dir.files, LAMBDA f : EndsWith(f.filename, <<".json">>))

\* line 100: errors.push({ file, error: e.message })
ErrorRecord(file, e) == [file |-> file.filename, error |-> e]

Build_Start_KeepsArrays ==
    /\ pc = "b:start"
    /\ IF pluginsDir.readable
       THEN pc' = "b:loop" /\ UNCHANGED exit
       ELSE pc' = "b:exited" /\ exit' = 1
    /\ argi' = 1
    /\ UNCHANGED <<tables, result, frame, fetch, net, args, pluginsDir,
                   results, output, plugins, errors, directory, clock,
                   remote, engine, runs>>

\* lines 54-61: list the directory and start with empty arrays; when the
\* directory cannot be read, buildDirectory rejects and the handler of
\* lines 134-137 exits with 1
Build_Start ==
    /\ pc = "b:start"
    /\ IF pluginsDir.readable
       THEN pc' = "b:loop" /\ UNCHANGED exit
       ELSE pc' = "b:exited" /\ exit' = 1
    /\ argi' = 1
    /\ plugins' = <<>>
    /\ errors' = <<>>
    /\ UNCHANGED <<tables, result, frame, fetch, net, args, pluginsDir,
                   results, output, directory, clock, remote, engine, runs>>

Build_Begin_SkipsUnparsed ==
    /\ pc = "b:loop"
    /\ argi <= Len(Files(pluginsDir))
    /\ LET file == Files(pluginsDir)[argi]
       IN IF file.doc.kind # "json" \/ Nullish(file.doc.val)
          THEN /\ argi' = argi + 1
               /\ UNCHANGED <<pc, fetch>>
          ELSE /\ fetch' = Call("fetchManifest", Get(file.doc.val, "repo"),
                                <<"manifest.json">>, "main")
               /\ pc' = "b:manifest"
               /\ UNCHANGED argi
    /\ UNCHANGED <<tables, result, frame, net, args, pluginsDir, results,
                   exit, output, plugins, errors, directory, clock, remote,
                   engine, runs>>

\* lines 63-72: the loop takes its next file, reads and parses it, and
\* calls fetchManifest; a file that does not parse, or parses to null, goes
\* to errors
Build_Begin ==
    /\ pc = "b:loop"
    /\ argi <= Len(Files(pluginsDir))
    /\ LET file == Files(pluginsDir)[argi]
       IN IF file.doc.kind # "json" \/ Nullish(file.doc.val)
          THEN /\ errors' = Append(errors, ErrorRecord(file,
                     IF file.doc.kind # "json" THEN <<"Unexpected token">>
                     ELSE <<"Cannot read properties of null">>))
               /\ argi' = argi + 1
               /\ UNCHANGED <<pc, fetch>>
          ELSE /\ fetch' = Call("fetchManifest", Get(file.doc.val, "repo"),
                                <<"manifest.json">>, "main")
               /\ pc' = "b:manifest"
               /\ UNCHANGED <<errors, argi>>
    /\ UNCHANGED <<tables, result, frame, net, args, pluginsDir, results,
                   exit, output, plugins, directory, clock, remote, engine,
                   runs>>

\* what fetch(rawUrl) comes back with: the transport fails, or the host
\* answers with a status and a body
Respond(f, answer) ==
    CASE answer.kind = "error" -> OnTransportError(f)
      [] answer.kind = "notOk" -> OnNotOk(f, answer.status)
      [] answer.kind = "ok" -> OnOk(f, answer.status, answer.body)

\* the host answers the builder's request
Build_Respond ==
    /\ pc = "b:manifest"
    /\ fetch.state = "pending"
    /\ fetch' = Respond(fetch, remote[Request(fetch)])
    /\ UNCHANGED <<tables, result, frame, pc, net, args, pluginsDir, argi,
                   results, exit, output, plugins, errors, directory, clock,
                   remote, engine, runs>>

\* lines 72-101: fetchManifest has settled; the entry goes to plugins, or
\* the failure to errors, and the loop moves on
Build_Entry ==
    /\ pc = "b:manifest"
    /\ Settled(fetch)
    /\ LET file == Files(pluginsDir)[argi]
           plugin == Entry(fetch.value.doc.val, file.doc.val, clock)
       IN IF fetch.state = "rejected"
          THEN /\ errors' = Append(errors, ErrorRecord(file, fetch.error))
               /\ UNCHANGED <<plugins, clock>>
          ELSE IF plugin.throws
          THEN /\ errors' = Append(errors, ErrorRecord(file, plugin.e))
               /\ UNCHANGED <<plugins, clock>>
          ELSE /\ plugins' = Append(plugins, plugin.v)
               /\ clock' = clock + 1
               /\ UNCHANGED errors
    /\ argi' = argi + 1
    /\ pc' = "b:loop"
    /\ UNCHANGED <<tables, result, frame, fetch, net, args, pluginsDir,
                   results, exit, output, directory, remote, engine, runs>>

\* lines 104-131: sort, write plugins.json, return.  When the comparator
\* throws, buildDirectory rejects and the handler of lines 134-137 exits
\* with 1, nothing written.
Build_Finish ==
    /\ pc = "b:loop"
    /\ argi > Len(Files(pluginsDir))
    /\ LET sorted == Sort(engine, plugins)
       IN IF sorted.throws
          THEN /\ exit' = 1
               /\ UNCHANGED <<plugins, directory, clock>>
          ELSE /\ plugins' = sorted.v
               /\ directory' = [written |-> TRUE, generatedAt |-> clock,
                                plugins |-> sorted.v]
               /\ clock' = clock + 1
               /\ exit' = 0
    /\ pc' = "b:exited"
    /\ UNCHANGED <<tables, result, frame, fetch, net, args, pluginsDir,
                   argi, results, output, errors, remote, engine, runs>>

\* how many times the builder is run
MaxRuns == 2

\* what a finished run leaves
Outcome ==
    [plugins |-> plugins, errors |-> errors, directory |-> directory,
     exit |-> exit, requests |-> net]

\* the builder is run again: a new process, the same script, the files
\* and plugins.json as the earlier run left them
Build_Again ==
    /\ pc = "b:exited"
    /\ Len(runs) + 1 < MaxRuns
    /\ runs' = Append(runs, Outcome)
    /\ pc' = "b:start"
    /\ exit' = -1
    /\ fetch' = NoFetch
    /\ net' = <<>>
    /\ UNCHANGED <<tables, result, frame, args, pluginsDir, argi, results,
                   output, plugins, errors, directory, clock, remote, engine>>

BuildNext ==
    \/ Build_Start
    \/ Build_Begin
    \/ Fetch_Begin
    \/ Build_Respond
    \/ Build_Entry
    \/ Build_Finish
    \/ Build_Again

---------------------------------------------------------------------------
(* Inputs: submission files, plugin directories, manifests, sources.       *)

MaxArgs == 2
MaxPerms == 3
MaxText == 4
MaxOps == 3
MaxId == 5
MaxVer == 5
MaxCount == 7
MaxUrl == 5
MaxFiles == 2

SeqsUpTo(S, n) == UNION {[1..k -> S] : k \in 0..n}

Scheme == <<"h", "t", "t", "p", "s", ":", "/", "/">>
Url_good == Scheme \o HostMarker \o <<"o", "/", "r">>
Url_dotgit == Scheme \o HostMarker \o <<"o", "/", "r">> \o DotGit
Url_nohost == Scheme \o <<"x", ".", "i", "o", "/", "o", "/", "r">>
Url_norepo == Scheme \o HostMarker \o <<"o">>

Id_ab == <<"a", ".", "b">>
Id_xy == <<"x", "-", "1", ".", "y">>
Id_upper == <<"A", ".", "b">>
Id_onepart == <<"a", "b">>
Version_100 == <<"1", ".", "0", ".", "0">>
Version_10 == <<"1", ".", "0">>

\* a file: the directory of its path, its base name, what its text parses
\* to.  File gives a file outside the plugins directory, Listed the file
\* of that name and text inside it.
File(filename, doc) ==
    [dir |-> "submissions", filename |-> filename, doc |-> doc]
Listed(file) == [file EXCEPT !.dir = "plugins"]
Name_ab == Id_ab \o <<".json">>
Name_foo == <<"f", "o", "o", ".json">>

GoodSubmission ==
    [id |-> Str(Id_ab), name |-> Str(<<"B">>), description |-> Str(<<"d">>),
     author |-> Str(<<"A">>), repo |-> Str(Url_good)]

GoodFile == File(Name_ab, Json(Obj(GoodSubmission)))
MisnamedFile == File(Name_foo, Json(Obj(GoodSubmission)))
MalformedFile == File(Name_ab, Malformed)
NullFile == File(Name_ab, Json(Null))

SmallFiles == {GoodFile, MisnamedFile, MalformedFile, NullFile}

CoreFiles ==
    SmallFiles \cup
    { File(Name_ab, Json(Obj([GoodSubmission EXCEPT !.name = Undefined,
                                                    !.author = Str(<<>>)]))),
      File(Name_ab, Json(Num(7))),
      File(Name_ab, Json(Obj([GoodSubmission EXCEPT !.id = Str(Id_upper)]))),
      File(Name_ab, Json(Obj([GoodSubmission EXCEPT !.id = Str(Id_onepart)]))),
      File(Name_ab, Json(Obj([GoodSubmission EXCEPT !.id = Num(7)]))),
      File(Name_ab, Json(Obj([GoodSubmission EXCEPT !.repo = Str(Url_nohost)]))),
      File(Name_foo, Json(Obj([GoodSubmission EXCEPT !.repo = Str(Url_norepo)]))),
      File(Name_ab, Json(Obj([GoodSubmission EXCEPT !.repo = Num(7)]))),
      File(Name_ab, Json(Obj([GoodSubmission EXCEPT !.repo = Str(Url_dotgit)]))) }

Dir(readable, files) ==
    [readable |-> readable,
     files |-> [i \in 1..Len(files) |-> Listed(files[i])]]
EmptyDir == Dir(TRUE, <<>>)
\* the directory already holds the submission a.b, next to a file that does
\* not parse and a file that is no .json
DirWithAB ==
    Dir(TRUE, << File(<<"README">>, Malformed),
                 File(Name_foo, Malformed),
                 File(Name_ab, Json(Obj(GoodSubmission))) >>)
UnreadableDir == Dir(FALSE, <<>>)

SetOfFiles(d) == {d.files[i] : i \in 1..Len(d.files)}

SmallDirs == {EmptyDir, DirWithAB}
CoreDirs == {EmptyDir, DirWithAB, UnreadableDir}

GoodManifest ==
    [id |-> Str(Id_ab), name |-> Str(<<"B">>), version |-> Str(Version_100),
     minAppVersion |-> Str(Version_100), author |-> Str(<<"A">>),
     description |-> Str(<<"d">>), main |-> Str(<<"main.js">>),
     permissions |-> Arr(<< Scoped("read", "goals"), <<"network">> >>),
     helpUrl |-> Str(<<"h">>), category |-> Str(<<"c">>)]

ManifestBody(doc) == Body(doc, <<>>, 2)
SourceBody(text, length) == Body(Malformed, text, length)

\* a manifest without a name whose permissions are a string
BadListManifest ==
    ManifestBody(Json(Obj([GoodManifest EXCEPT
        !.name = Undefined, !.permissions = Str(<<"network">>)])))

SmallManifests ==
    {ManifestBody(Json(Obj(GoodManifest))), ManifestBody(Malformed),
     BadListManifest}

CoreManifests ==
    SmallManifests \cup
    { ManifestBody(Json(Obj([GoodManifest EXCEPT
          !.id = Str(Id_xy), !.version = Str(Version_10),
          !.permissions = Arr(<< Scoped("made", "up") >>),
          !.helpUrl = Undefined, !.category = Undefined]))),
      ManifestBody(Json(Obj([GoodManifest EXCEPT
          !.id = Str(Id_xy), !.category = Str(<<>>)]))),
      ManifestBody(Json(Obj([GoodManifest EXCEPT
          !.version = Num(7),
          !.permissions = Arr(<< <<"network">>, Scoped("write", "schedules"),
                                 Scoped("write", "tags") >>)]))),
      ManifestBody(Json(Obj([GoodManifest EXCEPT
          !.version = Undefined, !.main = Str(<<>>)]))),
      ManifestBody(Json(Obj([GoodManifest EXCEPT !.permissions = Undefined]))),
      ManifestBody(Json(Obj([GoodManifest EXCEPT
          !.permissions = Str(<<"network">>)]))),
      BadListManifest,
      ManifestBody(Json(Null)),
      ManifestBody(Json(Num(7))) }

CleanSource == SourceBody(<<"x", "(", ")">>, 3)
EvalSource == SourceBody(<<"eval", "(", "x", ")">>, 1024 * 1024 + 1)
SmallSources == {CleanSource, EvalSource}

SmallU ==
    [manifests |-> SmallManifests, sources |-> SmallSources, notOk |-> {404}]

CoreU ==
    [manifests |-> CoreManifests,
     sources |-> SmallSources \cup
                 {SourceBody(<<"x", "=", "eval", " ", "(",
                               "document.write", "(">>, 1024 * 1024)},
     notOk |-> {404, 500}]

\* the validator on every list of at most MaxArgs submission files
Init == InitWith(SeqsUpTo(SmallFiles, MaxArgs), SmallDirs)
Spec == Init /\ [][Next(SmallU)]_vars

\* one validation, over the wider set of submissions and manifests
InitPipeline == InitWith({<<>>} \cup {<<f>> : f \in CoreFiles}, CoreDirs)
PipelineSpec == InitPipeline /\ [][Next(CoreU)]_vars

\* one validation, of a file of the plugins directory or of a file outside
\* it, over directories where the identifier a.b is used by no file, by
\* one, by two
XYSubmission == [GoodSubmission EXCEPT !.id = Str(Id_xy)]
DirWithXY == Dir(TRUE, << File(Id_xy \o <<".json">>, Json(Obj(XYSubmission))) >>)
DirWithABTwice ==
    Dir(TRUE, << File(Name_ab, Json(Obj(GoodSubmission))),
                 File(Name_foo, Json(Obj(GoodSubmission))),
                 File(Id_xy \o <<".json">>, Json(Obj(XYSubmission))) >>)
DupDirs == {EmptyDir, DirWithAB, DirWithXY, DirWithABTwice}

InitDup ==
    /\ InitWith({<<f>> : f \in {GoodFile, MisnamedFile}
                             \cup UNION {SetOfFiles(d) : d \in DupDirs}},
                DupDirs)
    /\ \A i \in 1..Len(args) :
           args[i].dir = "plugins" => args[i] \in SetOfFiles(pluginsDir)
DupSpec == InitDup /\ [][Next(SmallU)]_vars

\* one validation of a good submission, over every identifier of at most
\* MaxId characters, the file named after the identifier
IdChars == {"a", "0", "-", ".", "A"}
IdFile(id) ==
    File(id \o <<".json">>, Json(Obj([GoodSubmission EXCEPT !.id = Str(id)])))
IdU ==
    [manifests |-> {ManifestBody(Json(Obj(GoodManifest)))},
     sources |-> {CleanSource},
     notOk |-> {404}]
InitId == InitWith({<<IdFile(id)>> : id \in SeqsUpTo(IdChars, MaxId)}, {EmptyDir})
IdSpec == InitId /\ [][Next(IdU)]_vars

\* one validation of a good submission, over every permission list of at
\* most MaxCount tokens, each a valid, a dangerous or an unknown one
CountTokens == { Scoped("read", "goals"), <<"network">>, Scoped("made", "up") }
CountU ==
    [manifests |->
         { ManifestBody(Json(Obj([GoodManifest EXCEPT !.permissions = Arr(p)]))) :
               p \in SeqsUpTo(CountTokens, MaxCount) },
     sources |-> {CleanSource},
     notOk |-> {404}]
InitCount == InitWith({<<>>, <<GoodFile>>}, {EmptyDir})
CountSpec == InitCount /\ [][Next(CountU)]_vars

\* one validation of a good submission, over every repository URL made of
\* at most MaxUrl pieces (the host marker, a letter, a slash, ".git") and
\* every URL of fewer pieces after a host marker that no owner follows
UrlPieces == {HostMarker, <<"o">>, <<"/">>, DotGit}
RECURSIVE Flat(_)
Flat(ps) == IF ps = <<>> THEN <<>> ELSE Head(ps) \o Flat(Tail(ps))
Urls ==
    {Flat(ps) : ps \in SeqsUpTo(UrlPieces, MaxUrl)}
    \cup {HostMarker \o <<"/">> \o Flat(ps) : ps \in SeqsUpTo(UrlPieces, MaxUrl - 1)}
UrlFile(u) ==
    File(Name_ab, Json(Obj([GoodSubmission EXCEPT !.repo = Str(u)])))
InitUrl == InitWith({<<UrlFile(u)>> : u \in Urls}, {EmptyDir})
UrlSpec == InitUrl /\ [][Next(IdU)]_vars

\* one validation of a good submission, over every manifest version of at
\* most MaxVer characters and every version 1.0.0 followed by fewer
VerChars == {"1", ".", "-", "+", "a"}
Versions ==
    SeqsUpTo(VerChars, MaxVer)
    \cup {Version_100 \o t : t \in SeqsUpTo(VerChars, MaxVer - 1)}
VerU ==
    [manifests |->
         { ManifestBody(Json(Obj([GoodManifest EXCEPT !.version = Str(v)]))) :
               v \in Versions },
     sources |-> {CleanSource},
     notOk |-> {404}]
InitVer == InitWith({<<>>, <<GoodFile>>}, {EmptyDir})
VerSpec == InitVer /\ [][Next(VerU)]_vars

\* one validation of a good submission, over every permission list of at
\* most MaxPerms tokens
PermTokens ==
    { Scoped("read", "goals"), Scoped("write", "tasks"), <<"network">>,
      <<"notifications">>, Scoped("made", "up"), Scoped("write", "schedules") }

PermU ==
    [manifests |->
         { ManifestBody(Json(Obj([GoodManifest EXCEPT !.permissions = Arr(p)]))) :
               p \in SeqsUpTo(PermTokens, MaxPerms) },
     sources |-> {CleanSource},
     notOk |-> {404}]

InitPerm == InitWith({<<>>, <<GoodFile>>}, {EmptyDir})
PermSpec == InitPerm /\ [][Next(PermU)]_vars

\* one validation of a good submission, over every source text of at most
\* MaxText pieces
ScanPieces ==
    {"eval", "(", ")", " ", "new", "Function", "document.write",
     "innerHTML", "=", "fetch", "${"}

ScanU ==
    [manifests |-> {ManifestBody(Json(Obj(GoodManifest)))},
     sources |-> { SourceBody(t, Len(t)) : t \in SeqsUpTo(ScanPieces, MaxText) }
                 \cup { SourceBody(t, n) : t \in SeqsUpTo(ScanPieces, 2),
                                           n \in {1024 * 1024, 1024 * 1024 + 1} },
     notOk |-> {404}]

InitScan == InitWith({<<>>, <<GoodFile>>}, {DirWithAB})
ScanSpec == InitScan /\ [][Next(ScanU)]_vars

---------------------------------------------------------------------------
(* The builder over directories of at most MaxFiles files, run MaxRuns     *)
(* times against hosts that answer each request the same way every time.   *)

Url_two == Scheme \o HostMarker \o <<"o", "/", "s">>

SubA == File(Name_ab, Json(Obj(GoodSubmission)))
SubB == File(Id_xy \o <<".json">>,
             Json(Obj([XYSubmission EXCEPT !.repo = Str(Url_two)])))
SubMalformed == File(Name_foo, Malformed)
SubNoUrl == File(<<"n", ".json">>,
                 Json(Obj([GoodSubmission EXCEPT !.repo = Str(Url_nohost)])))
Readme == File(<<"README">>, Malformed)
BuildFiles == {SubA, SubB, SubMalformed, SubNoUrl, Readme}

\* the directories: the files of a directory have different names
BuildDirs ==
    { Dir(TRUE, fs) : fs \in {s \in SeqsUpTo(BuildFiles, MaxFiles) :
                                 \A i, j \in 1..Len(s) : i # j => s[i] # s[j]} }
        \cup {UnreadableDir}

Named(n) == ManifestBody(Json(Obj([GoodManifest EXCEPT !.name = n])))

Ok(body) == [kind |-> "ok", status |-> 200, body |-> body]
NotOk(status) == [kind |-> "notOk", status |-> status, body |-> NoBody]
TransportError == [kind |-> "error", status |-> 0, body |-> NoBody]

\* what a repository answers on its two branches
Site(main, master) == [main |-> main, master |-> master]
SitesR ==
    { Site(Ok(Named(Str(<<"B">>))), NotOk(404)),
      Site(Ok(Named(Str(<<"a">>))), NotOk(404)),
      Site(Ok(Named(Undefined)), NotOk(404)),
      Site(Ok(ManifestBody(Malformed)), NotOk(404)),
      Site(Ok(ManifestBody(Json(Null))), NotOk(404)),
      Site(NotOk(404), Ok(Named(Str(<<"b">>)))),
      Site(NotOk(404), NotOk(500)),
      Site(TransportError, NotOk(404)) }
SitesS ==
    { Site(Ok(Named(Str(<<"a">>))), NotOk(404)),
      Site(Ok(Named(Str(<<"b">>))), NotOk(404)),
      Site(Ok(Named(Undefined)), NotOk(404)),
      Site(NotOk(404), NotOk(404)) }

BuildRequests ==
    [owner : {<<"o">>}, repo : {<<"r">>, <<"s">>},
     branch : {"main", "master"}, filePath : {<<"manifest.json">>}]

Remotes ==
    { [q \in BuildRequests |->
           IF q.repo = <<"r">> THEN r[q.branch] ELSE s[q.branch]] :
          r \in SitesR, s \in SitesS }

InitBuild ==
    /\ tables = TheTables
    /\ result = NewValidationResult(Str(<<>>))
    /\ frame = NoFrame /\ fetch = NoFetch /\ net = <<>>
    /\ args = <<>> /\ argi = 1 /\ results = <<>>
    /\ exit = -1 /\ output = NoOutput
    /\ pc = "b:start"
    /\ pluginsDir \in BuildDirs
    /\ plugins = <<>> /\ errors = <<>> /\ directory = NoDirectory
    /\ clock = 0
    /\ remote \in Remotes
    /\ engine \in {"laterFirst", "earlierFirst"}
    /\ runs = <<>>
BuildSpec == InitBuild /\ [][BuildNext]_vars

---------------------------------------------------------------------------
(* A ValidationResult on its own, under any sequence of its operations.    *)

CheckNames == {"Valid JSON", "IDs match"}
Messages == {<<"m">>}

VR_addCheck ==
    /\ pc = "object"
    /\ Len(result.checks) < MaxOps
    /\ \E name \in CheckNames, passed \in BOOLEAN :
           result' = addCheck(result, name, passed, Null)
    /\ UNCHANGED buildVars
    /\ UNCHANGED <<tables, frame, pc, fetch, net, args, pluginsDir, argi,
                   results, exit, output>>

VR_addWarning ==
    /\ pc = "object"
    /\ Len(result.warnings) < MaxOps
    /\ \E message \in Messages : result' = addWarning(result, message)
    /\ UNCHANGED buildVars
    /\ UNCHANGED <<tables, frame, pc, fetch, net, args, pluginsDir, argi,
                   results, exit, output>>

VR_addError ==
    /\ pc = "object"
    /\ Len(result.errors) < MaxOps
    /\ \E message \in Messages : result' = addError(result, message)
    /\ UNCHANGED buildVars
    /\ UNCHANGED <<tables, frame, pc, fetch, net, args, pluginsDir, argi,
                   results, exit, output>>

NextVR == VR_addCheck \/ VR_addWarning \/ VR_addError

InitVR ==
    /\ BuilderIdle
    /\ tables = TheTables
    /\ result = NewValidationResult(Str(Id_ab))
    /\ frame = NoFrame /\ pc = "object" /\ fetch = NoFetch /\ net = <<>>
    /\ args = <<>> /\ pluginsDir = EmptyDir /\ argi = 1 /\ results = <<>>
    /\ exit = -1 /\ output = NoOutput

VRSpec == InitVR /\ [][NextVR]_vars

---------------------------------------------------------------------------
(* One call of fetchFromGitHub or fetchManifest on its own, with any       *)
(* branch argument.                                                        *)

Branches == {"main", "master", "dev"}

FetchU ==
    [manifests |-> SmallManifests, sources |-> SmallSources,
     notOk |-> {404, 500}]

FetchCalls ==
    { Call("fetchFromGitHub", url, filePath, branch) :
          url \in {Str(Url_good), Str(Url_dotgit), Str(Url_nohost),
                   Str(Url_norepo), Num(7)},
          filePath \in {<<"manifest.json">>, <<"main.js">>},
          branch \in Branches }
    \cup
    { Call("fetchManifest", url, <<"manifest.json">>, branch) :
          url \in {Str(Url_good), Str(Url_nohost), Undefined},
          branch \in Branches }

NextFetch ==
    \/ Fetch_Begin
    \/ Fetch_NotOk(FetchU)
    \/ Fetch_Ok(FetchU)
    \/ Fetch_TransportError

InitFetch ==
    /\ BuilderIdle
    /\ tables = TheTables
    /\ result = NewValidationResult(Str(<<>>))
    /\ frame = NoFrame /\ pc = "call" /\ fetch \in FetchCalls /\ net = <<>>
    /\ args = <<>> /\ pluginsDir = EmptyDir /\ argi = 1 /\ results = <<>>
    /\ exit = -1 /\ output = NoOutput

\* the transport answers every request: with a response or with an error
FetchSpec == InitFetch /\ [][NextFetch]_vars /\ WF_vars(NextFetch)

---------------------------------------------------------------------------
(* Properties *)

CheckIndexes(r, name) == {i \in 1..Len(r.checks) : r.checks[i].name = name}
HasCheck(r, name) == CheckIndexes(r, name) # {}
FailedCheck(r, name) ==
    \E i \in CheckIndexes(r, name) : ~r.checks[i].passed
PassedCheck(r, name) ==
    \E i \in CheckIndexes(r, name) : r.checks[i].passed
NoFailedCheck(r) == \A i \in 1..Len(r.checks) : r.checks[i].passed

\* the results validatePlugin returned (main's own error results hold an
\* error), paired with the argument they belong to
ReturnedIndexes == {k \in 1..Len(results) : results[k].errors = <<>>}

\* C1: after any sequence of addCheck, addWarning and addError, passed is
\* true exactly when no recorded check failed and no error was recorded;
\* addWarning leaves passed as it is; once false, passed stays false.
C1_PassedIffNothingFailed ==
    /\ [](result.passed <=> (NoFailedCheck(result) /\ result.errors = <<>>))
    /\ [][VR_addWarning => result'.passed = result.passed]_vars
    /\ [][~result.passed => ~result'.passed]_vars

C1_Witness ==
    /\ pc = "object"
    /\ Len(result.checks) >= 2
    /\ ~result.checks[1].passed /\ result.checks[2].passed
    /\ result.warnings # <<>>
    /\ result.errors = <<>>
    /\ ~result.passed

BlockingChecks ==
    {"Valid JSON", "Required fields", "Plugin ID format", "Repo accessible",
     "Manifest valid"}
LocalChecks == {"Valid JSON", "Required fields", "Plugin ID format"}

FailedBlocking(r) ==
    {i \in 1..Len(r.checks) :
         r.checks[i].name \in BlockingChecks /\ ~r.checks[i].passed}

\* the requests made for argument k
RequestsOf(k) == SelectSeq(net, LAMBDA n : n.arg = k)

\* C2: a failed blocking check ends validatePlugin at once.  While the
\* function is suspended at a fetch its result holds no failed blocking
\* check; in a returned result a failed blocking check is the last check,
\* the only warning beside it is the duplicate warning recorded before the
\* manifest fetch (none at all when a local check failed), and no request
\* was issued after it: none for a local check, none for the entry file.
C2_BlockingFailureHalts ==
    /\ pc \in {"manifest", "entry"} => FailedBlocking(result) = {}
    /\ \A k \in ReturnedIndexes :
           LET r == results[k]
           IN \A i \in FailedBlocking(r) :
                  /\ i = Len(r.checks)
                  /\ r.warnings \in {<<>>, <<DuplicateWarning>>}
                  /\ r.checks[i].name \in LocalChecks =>
                         r.warnings = <<>> /\ RequestsOf(k) = <<>>
                  /\ \A j \in 1..Len(RequestsOf(k)) :
                         RequestsOf(k)[j].req.filePath = <<"manifest.json">>
                  /\ ~r.passed

C2_Witness ==
    /\ Len(results) = 1
    /\ results[1].errors = <<>>
    /\ FailedCheck(results[1], "Manifest valid")
    /\ results[1].warnings = <<DuplicateWarning>>
    /\ Len(results[1].checks) = 7

TheCheck(r, name) == r.checks[CHOOSE i \in CheckIndexes(r, name) : TRUE]
Once(r, name) == Cardinality(CheckIndexes(r, name)) = 1

\* the checks a result holds when "Manifest valid" has passed, from the
\* eighth on
AfterManifestValid == <<"IDs match", "Version format", "Valid permissions">>

\* validatePlugin got past "Manifest valid" and through the three checks
\* after it
ThreeChecksOnce(r) ==
    /\ Len(r.checks) >= 10
    /\ \A j \in 1..3 :
           /\ r.checks[7 + j].name = AfterManifestValid[j]
           /\ Once(r, AfterManifestValid[j])

ManifestDependent ==
    {"Manifest found", "Manifest valid", "IDs match", "Version format",
     "Valid permissions", "Main script accessible"}

\* validatePlugin is about to resume from a manifest fetch that gave no
\* manifest: the call failed (URL not parseable, no branch answered ok,
\* transport error) or the text fetched is no JSON
ManifestUnobtainable ==
    /\ pc = "manifest"
    /\ Settled(fetch)
    /\ fetch.state = "rejected" \/ fetch.value.doc.kind # "json"

\* C4: when the manifest cannot be obtained, validatePlugin returns the
\* result it had with one more check, a failed "Repo accessible"; the
\* manifest stays null, "Manifest found" and the manifest-dependent checks
\* are not recorded, no warning is added and no further request is made.
C4_ManifestUnobtainableHalts ==
    [][ManifestUnobtainable =>
           /\ pc' = "loop"
           /\ Len(results') = Len(results) + 1
           /\ LET r == results'[Len(results')]
              IN /\ r.errors = <<>>
                 /\ Len(r.checks) = Len(result.checks) + 1
                 /\ SubSeq(r.checks, 1, Len(result.checks)) = result.checks
                 /\ r.checks[Len(r.checks)].name = "Repo accessible"
                 /\ ~r.checks[Len(r.checks)].passed
                 /\ \A i \in 1..Len(r.checks) :
                        r.checks[i].name \notin ManifestDependent
                 /\ r.manifest.t = "null"
                 /\ r.warnings = result.warnings
                 /\ ~r.passed
           /\ net' = net
           /\ fetch' = fetch]_vars

C4_Witness ==
    /\ Len(results) = 1
    /\ results[1].errors = <<>>
    /\ FailedCheck(results[1], "Repo accessible")
    /\ results[1].manifest.t = "null"
    /\ Len(net) = 2
    /\ net[1].req.branch = "main" /\ net[2].req.branch = "master"
    /\ fetch.state = "rejected"
    /\ Len(fetch.attempts) = 2

UrlParses(f) == f.repoUrl.t = "string" /\ parseGitHubUrl(f.repoUrl.v).ok
HttpNotOk(status) == status \notin {0, 200}
LastAttempt(f) == f.attempts[Len(f.attempts)]

\* C5 as stated, for the calls whose URL parses: at most two attempts; from
\* "main", an attempt without success is followed by one attempt against
\* "master"; from another branch, exactly one attempt; a failure carries
\* the HTTP status of the last attempt.
C5_AsStated ==
    (Settled(fetch) /\ UrlParses(fetch)) =>
        /\ Len(fetch.attempts) \in 1..2
        /\ (fetch.branch0 = "main" /\ fetch.attempts[1].status # 200) =>
               /\ Len(fetch.attempts) = 2
               /\ fetch.attempts[2].branch = "master"
        /\ fetch.branch0 # "main" => Len(fetch.attempts) = 1
        /\ fetch.state = "rejected" =>
               /\ HttpNotOk(LastAttempt(fetch).status)
               /\ fetch.error = FailedToFetch(fetch, LastAttempt(fetch).status)

\* C5, amended: a call whose URL parses makes one attempt against its
\* branch and a second one, against "master", exactly when the branch is
\* "main" and the first response is an HTTP response that is not ok; never
\* more than two.  A failure after a response that is not ok carries that
\* last response's status; a transport error, or (fetchManifest) text that
\* is no JSON, fails the call at once, without fallback and without a
\* status.  A call whose URL does not parse fails before any attempt.
\* Every call settles, with content or with a failure.
C5_TwoAttemptPolicy ==
    /\ [](Len(fetch.attempts) <= 2)
    /\ []((Settled(fetch) /\ UrlParses(fetch)) =>
            /\ Len(fetch.attempts) \in 1..2
            /\ fetch.attempts[1].branch = fetch.branch0
            /\ Len(fetch.attempts) = 2 <=>
                   (fetch.branch0 = "main"
                        /\ HttpNotOk(fetch.attempts[1].status))
            /\ Len(fetch.attempts) = 2 => fetch.attempts[2].branch = "master"
            /\ fetch.branch0 # "main" => Len(fetch.attempts) = 1
            /\ fetch.state = "resolved" => LastAttempt(fetch).status = 200
            /\ (fetch.state = "rejected"
                    /\ HttpNotOk(LastAttempt(fetch).status)) =>
                   fetch.error = FailedToFetch(fetch, LastAttempt(fetch).status)
            /\ (fetch.state = "rejected"
                    /\ ~HttpNotOk(LastAttempt(fetch).status)) =>
                   fetch.error \in {<<"fetch failed">>, <<"Unexpected token">>})
    /\ []((Settled(fetch) /\ ~UrlParses(fetch)) =>
            fetch.state = "rejected" /\ fetch.attempts = <<>> /\ net = <<>>)
    /\ <>Settled(fetch)

C5_Witness ==
    /\ pc = "call"
    /\ fetch.state = "rejected"
    /\ fetch.branch0 = "main"
    /\ Len(fetch.attempts) = 2
    /\ fetch.attempts[1].status = 404
    /\ fetch.attempts[2] = [branch |-> "master", status |-> 500]
    /\ fetch.error = <<"Failed to fetch ", "main.js", ": ", "500">>

\* the results that got past "Manifest valid": returned ones, and the one
\* of a validation suspended at the entry-file fetch
PastManifestValid ==
    {r \in {results[k] : k \in ReturnedIndexes}
            \cup (IF pc = "entry" THEN {result} ELSE {}) :
         PassedCheck(r, "Manifest valid")}

Declared(r) == Get(r.manifest, "permissions").v

\* C6: in every result that reached the permission-vocabulary step, "Valid
\* permissions" is recorded once; it failed exactly when some declared
\* permission is not in VALID_PERMISSIONS, with the detail "invalid: " and
\* the unknown tokens in declared order, duplicates kept, joined by ", ";
\* otherwise it passed, without detail.
C6_ValidPermissions ==
    \A r \in PastManifestValid :
        LET unknown ==
                SelectSeq(Declared(r),
                          LAMBDA p : \A i \in 1..Len(VALID_PERMISSIONS) :
                                         VALID_PERMISSIONS[i] # p)
            c == TheCheck(r, "Valid permissions")
        IN /\ Once(r, "Valid permissions")
           /\ ~c.passed <=> unknown # <<>>
           /\ ~c.passed => c.details = Str(<<"invalid: ">> \o Join(unknown, ", "))
           /\ c.passed => c.details.t = "null"

C6_Witness ==
    \E r \in PastManifestValid :
        /\ Declared(r) = << Scoped("made", "up"), Scoped("read", "goals"),
                            Scoped("made", "up") >>
        /\ TheCheck(r, "Valid permissions").details =
               Str(<<"invalid: ", "made", ":", "up", ", ", "made", ":", "up">>)

IsDangerousWarning(w) == w[1] = "Plugin requests dangerous permissions: "
DangerousWarnings(r) == SelectSeq(r.warnings, IsDangerousWarning)

\* C7: in every result that reached the advisory step there is one
\* dangerous-permission warning when some declared permission is in
\* DANGEROUS_PERMISSIONS and none otherwise; the warning lists the declared
\* dangerous permissions, all of them and nothing else, in declared order;
\* passed is what the checks alone make it.
C7_OneDangerousWarning ==
    \A r \in PastManifestValid :
        LET dangerous ==
                SelectSeq(Declared(r),
                          LAMBDA p : \E i \in 1..Len(DANGEROUS_PERMISSIONS) :
                                         DANGEROUS_PERMISSIONS[i] = p)
        IN /\ Len(DangerousWarnings(r)) = (IF dangerous # <<>> THEN 1 ELSE 0)
           /\ dangerous # <<>> =>
                  DangerousWarnings(r)[1] =
                      <<"Plugin requests dangerous permissions: ", Tick>>
                          \o Join(dangerous, TickCommaTick)
                          \o <<Tick, " - please document why these are needed">>
           /\ r.passed <=> NoFailedCheck(r)

C7_Witness ==
    \E r \in PastManifestValid :
        /\ Declared(r) = << <<"network">>, Scoped("read", "goals"),
                            Scoped("write", "tasks") >>
        /\ Len(DangerousWarnings(r)) = 1
        /\ r.passed

SetOf(a) == {a[i] : i \in 1..Len(a)}
WriteScoped(p) == Len(p) = 3 /\ p[1] = "write" /\ p[2] = ":"
ReadScoped(p) == Len(p) = 3 /\ p[1] = "read" /\ p[2] = ":"

\* C8: DANGEROUS_PERMISSIONS is a subset of VALID_PERMISSIONS, and is the
\* write-scoped permissions of VALID_PERMISSIONS together with network,
\* filesystem, theme and customize:ui; no read-scoped permission is in it;
\* no step of a run changes the tables.
C8_PolicyTables ==
    /\ [](/\ SetOf(tables.dangerous) \subseteq SetOf(tables.valid)
          /\ SetOf(tables.dangerous) =
                 {p \in SetOf(tables.valid) : WriteScoped(p)}
                     \cup { <<"network">>, <<"filesystem">>, <<"theme">>,
                            Scoped("customize", "ui") }
          /\ \A p \in SetOf(tables.dangerous) : ~ReadScoped(p))
    /\ [][tables' = tables]_vars

C8_Witness ==
    /\ pc = "exited"
    /\ Len(results) = 2
    /\ DangerousWarnings(results[1]) # <<>>
    /\ DangerousWarnings(results[2]) # <<>>

\* C9: every permission CONTRIBUTING.md marks "requires justification",
\* when a manifest declares it, brings the dangerous-permissions warning.
C9_DocumentedPermissionsWarn ==
    \A r \in PastManifestValid :
        (\E i \in 1..Len(Declared(r)) : Declared(r)[i] \in REQUIRES_JUSTIFICATION)
            => DangerousWarnings(r) # <<>>

\* validatePlugin is about to resume from an entry-file fetch that
\* succeeded
EntryFetched == pc = "entry" /\ fetch.state = "resolved"

IsPatternWarning(w) == w[1] = "Found potentially dangerous pattern: "

\* C10: when the entry file is fetched, the scan adds to the warnings one
\* warning for each entry of DANGEROUS_PATTERNS that matches the text, in
\* table order, after the size warning if the text is over 1 MiB, and
\* nothing else; it records no check and leaves passed as it was.
C10_OneWarningPerMatchingPattern ==
    [][EntryFetched =>
           LET text == fetch.value.text
               matching == SelectSeq(DANGEROUS_PATTERNS,
                                     LAMBDA e : PatternTest(e.pattern, text))
               added == SubSeq(results'[Len(results')].warnings,
                               Len(result.warnings) + 1,
                               Len(results'[Len(results')].warnings))
               r == results'[Len(results')]
           IN /\ Len(results') = Len(results) + 1
              /\ SubSeq(r.warnings, 1, Len(result.warnings)) = result.warnings
              /\ SelectSeq(added, IsPatternWarning) =
                     [i \in 1..Len(matching) |->
                          <<"Found potentially dangerous pattern: ", Tick,
                            matching[i].name, Tick,
                            " - please document its use">>]
              /\ Len(added) = Len(matching)
                     + (IF fetch.value.length > 1024 * 1024 THEN 1 ELSE 0)
              /\ r.checks = result.checks
              /\ r.passed = result.passed
              /\ r.errors = <<>>]_vars

C10_Witness ==
    /\ pc = "loop"
    /\ fetch.state = "resolved"
    /\ fetch.value.text = <<"eval", "(", "innerHTML", "=">>
    /\ Len(results) = 1
    /\ SelectSeq(results[1].warnings, IsPatternWarning) =
           << PatternWarning("eval()"), PatternWarning("innerHTML assignment") >>
    /\ results[1].passed

\* validatePlugin is about to resume from an entry-file fetch that failed
EntryFailed == pc = "entry" /\ fetch.state = "rejected"

\* C11: when the fetch of the entry file fails, validatePlugin returns the
\* result with every earlier check and warning, one more check, 'Main
\* script accessible', failed with the failure's message, no new warning,
\* and passed false; when the fetch succeeds no 'Main script accessible'
\* check is recorded.
C11_EntryFetchFailureRecorded ==
    [][/\ EntryFailed =>
              /\ Len(results') = Len(results) + 1
              /\ results'[Len(results')].checks =
                     Append(result.checks,
                            [name |-> "Main script accessible",
                             passed |-> FALSE,
                             details |-> Str(fetch.error)])
              /\ results'[Len(results')].warnings = result.warnings
              /\ results'[Len(results')].manifest = result.manifest
              /\ results'[Len(results')].errors = <<>>
              /\ ~results'[Len(results')].passed
       /\ EntryFetched =>
              ~HasCheck(results'[Len(results')], "Main script accessible")]_vars

C11_Witness ==
    /\ pc = "loop"
    /\ fetch.state = "rejected"
    /\ Len(fetch.attempts) = 2
    /\ fetch.filePath = <<"main.js">>
    /\ Len(results) = 1
    /\ FailedCheck(results[1], "Main script accessible")
    /\ PassedCheck(results[1], "Valid permissions")
    /\ DangerousWarnings(results[1]) # <<>>
    /\ \A i \in 1..Len(results[1].warnings) :
           ~IsPatternWarning(results[1].warnings[i])

\* the results that got past the duplicate step, each with the argument it
\* belongs to
PastDuplicateStep ==
    {[r |-> results[k], file |-> args[k]] : k \in ReturnedIndexes}
        \cup (IF pc \in {"manifest", "entry"}
              THEN {[r |-> result, file |-> args[argi]]} ELSE {})

\* a local submission other than file that has the identifier id
OtherWithId(file, id) ==
    \E other \in SetOfFiles(pluginsDir) :
        /\ other # file
        /\ EndsWith(other.filename, <<".json">>)
        /\ other.doc.kind = "json"
        /\ other.doc.val.t = "object"
        /\ Get(other.doc.val, "id") = id

\* C12: the result holds the 'Plugin ID already exists' warning exactly
\* when a local submission other than the one being validated has the
\* submission's identifier; the duplicate step records no check, and passed
\* is what the checks make it.
C12_DuplicateWarningIffOther ==
    \A x \in PastDuplicateStep :
        HasCheck(x.r, "Filename matches ID") =>
            /\ (\E i \in 1..Len(x.r.warnings) : x.r.warnings[i] = DuplicateWarning)
                   <=> OtherWithId(x.file, x.r.pluginId)
            /\ x.r.passed <=> NoFailedCheck(x.r)

\* C13: main exits with a status other than 0 exactly when no argument was
\* given or some result has passed false; the document it writes has
\* allPassed equal to the conjunction of passed over its results and one
\* result for each argument.  (The document is written unless no argument
\* was given or printing a result threw.)
C13_ExitStatusAndOutput ==
    /\ pc # "exited" => (exit = -1 /\ ~output.written)
    /\ pc = "exited" =>
           /\ exit \in {0, 1}
           /\ exit # 0 <=> (Len(args) = 0
                               \/ \E i \in 1..Len(results) : ~results[i].passed)
           /\ output.written <=>
                  (Len(args) > 0
                       /\ \A i \in 1..Len(results) : ~toMarkdownThrows(results[i]))
           /\ output.written =>
                  /\ output.results = results
                  /\ Len(output.results) = Len(args)
                  /\ output.allPassed <=>
                         \A i \in 1..Len(output.results) : output.results[i].passed

C13_Witness ==
    /\ pc = "exited"
    /\ Len(args) = 2
    /\ output.written
    /\ output.results[1].passed
    /\ ~output.results[2].passed
    /\ ~output.allPassed
    /\ exit = 1

\* the results that got past "Required fields"
PastRequiredFields ==
    {r \in {results[k] : k \in ReturnedIndexes}
            \cup (IF pc \in {"manifest", "entry"} THEN {result} ELSE {}) :
         PassedCheck(r, "Required fields")}

\* the parts of id lie between neighbouring marks: position 0, the
\* positions of the dots, position Len(id) + 1
Marks(id) == {i \in 1..Len(id) : id[i] = "."} \cup {0, Len(id) + 1}
NextMark(id, b) ==
    CHOOSE e \in Marks(id) : e > b /\ \A c \in Marks(id) : c > b => e <= c

\* id has at least 2 parts, and each is one character of [a-z0-9] or
\* starts and ends with one, with only [a-z0-9-] between
WellFormedId(id) ==
    /\ \E i \in 1..Len(id) : id[i] = "."
    /\ \A b \in Marks(id) \ {Len(id) + 1} :
           LET e == NextMark(id, b)
           IN /\ e > b + 1
              /\ id[b + 1] \in Lower \cup Digit
              /\ id[e - 1] \in Lower \cup Digit
              /\ \A k \in (b + 1)..(e - 1) : id[k] \in Lower \cup Digit \cup {"-"}

\* an empty part, an uppercase letter, or a part that begins or ends with
\* a hyphen
IllFormedId(id) ==
    \/ id[1] \in {".", "-"}
    \/ id[Len(id)] \in {".", "-"}
    \/ \E i \in 1..(Len(id) - 1) :
           <<id[i], id[i + 1]>> \in {<<".", ".">>, <<".", "-">>, <<"-", ".">>}
    \/ \E i \in 1..Len(id) : id[i] \in Upper

\* C20: the identifier check passes exactly for the identifiers that split
\* on "." into at least 2 parts, each part one character of [a-z0-9] or
\* starting and ending with one with only [a-z0-9-] between; an empty part,
\* an uppercase letter, or a part that begins or ends with a hyphen makes
\* it fail.
C20_PluginIdFormat ==
    \A r \in PastRequiredFields :
        /\ Once(r, "Plugin ID format")
        /\ TheCheck(r, "Plugin ID format").passed <=> WellFormedId(r.pluginId.v)
        /\ IllFormedId(r.pluginId.v) => ~TheCheck(r, "Plugin ID format").passed

C20_Witness ==
    /\ \E r \in PastRequiredFields :
           /\ r.pluginId.v = <<"a", "-", "a", ".", "0">>
           /\ PassedCheck(r, "Plugin ID format")
    /\ pc = "exited"

\* the builder is inside its loop or past it, in a directory it could read
Building == pc \in {"b:loop", "b:manifest", "b:exited"} /\ pluginsDir.readable

\* the files the loop has finished with
Processed ==
    IF pc = "b:exited" THEN Len(Files(pluginsDir)) ELSE argi - 1

UrlOf(file) == Get(file.doc.val, "repo")
ParsesUrl(file) ==
    /\ file.doc.kind = "json"
    /\ UrlOf(file).t = "string"
    /\ parseGitHubUrl(UrlOf(file).v).ok

\* what the host answers for file's manifest on a branch
AnswerOn(file, branch) ==
    remote[[owner |-> parseGitHubUrl(UrlOf(file).v).owner,
            repo |-> parseGitHubUrl(UrlOf(file).v).repo,
            branch |-> branch, filePath |-> <<"manifest.json">>]]

\* the last answer the two-attempt policy gets to
FinalAnswer(file) ==
    IF AnswerOn(file, "main").kind = "notOk"
    THEN AnswerOn(file, "master") ELSE AnswerOn(file, "main")

UnreachableOnBoth(file) ==
    /\ ParsesUrl(file)
    /\ AnswerOn(file, "main").kind = "notOk"
    /\ AnswerOn(file, "master").kind = "notOk"

\* the submission parses, its URL parses, and its repository serves a
\* manifest that is a JSON object
Succeeds(file) ==
    /\ ParsesUrl(file)
    /\ FinalAnswer(file).kind = "ok"
    /\ FinalAnswer(file).body.doc.kind = "json"
    /\ FinalAnswer(file).body.doc.val.t = "object"

InErrors(file) == \E i \in 1..Len(errors) : errors[i].file = file.filename
InPlugins(file) == \E i \in 1..Len(plugins) : plugins[i].repo = UrlOf(file)

\* C14: every submission file the loop has finished with is in exactly one
\* of plugins and errors, once, so that plugins.length + errors.length is
\* the number of files; when all N files succeed there are N entries and
\* no error; a submission whose repository is unreachable on both branches
\* is in errors and not in plugins.
C14_EntryOrErrorPerFile ==
    Building =>
        /\ Len(plugins) + Len(errors) = Processed
        /\ \A k \in 1..Processed :
               LET file == Files(pluginsDir)[k]
               IN /\ InErrors(file) # InPlugins(file)
                  /\ UnreachableOnBoth(file) => InErrors(file)
        /\ (pc = "b:exited"
                /\ \A k \in 1..Len(Files(pluginsDir)) :
                       Succeeds(Files(pluginsDir)[k])) =>
               /\ Len(plugins) = Len(Files(pluginsDir))
               /\ errors = <<>>

C14_Witness ==
    /\ pc = "b:exited"
    /\ exit = 0
    /\ Len(Files(pluginsDir)) = 2
    /\ Len(directory.plugins) = 1
    /\ errors = << [file |-> Id_xy \o <<".json">>,
                    error |-> <<"Failed to fetch manifest: ", "404">>] >>

\* C15: whatever failure a submission has, the run goes through every
\* file, sorts, writes the document and ends normally, and the document
\* holds the entry of every submission that succeeds.
C15_BadSubmissionNeverAborts ==
    (pc = "b:exited" /\ pluginsDir.readable) =>
        /\ exit = 0
        /\ directory.written
        /\ Len(plugins) + Len(errors) = Len(Files(pluginsDir))
        /\ \A k \in 1..Len(Files(pluginsDir)) :
               Succeeds(Files(pluginsDir)[k]) =>
                   \E i \in 1..Len(directory.plugins) :
                       directory.plugins[i].repo = UrlOf(Files(pluginsDir)[k])

\* C16: in every document the builder writes, each entry's name compares
\* less than or equal to the name of the entry after it, in whatever order
\* the files were listed.
C16_SortedByName ==
    directory.written =>
        \A i \in 1..(Len(directory.plugins) - 1) :
            localeCompare(NameString(directory.plugins[i].name),
                          NameString(directory.plugins[i + 1].name)) <= 0

C16_Witness ==
    /\ pc = "b:exited"
    /\ exit = 0
    /\ Files(pluginsDir) = <<Listed(SubA), Listed(SubB)>>
    /\ Len(directory.plugins) = 2
    /\ directory.plugins[1].repo = Str(Url_two)
    /\ directory.plugins[1].name = Str(<<"a">>)
    /\ directory.plugins[2].name = Str(<<"B">>)

\* the manifest an entry was made from
ManifestOf(entry) ==
    LET file == CHOOSE f \in SetOfFiles(pluginsDir) :
                    ParsesUrl(f) /\ UrlOf(f) = entry.repo
    IN FinalAnswer(file).body.doc.val

\* C17: every entry of a written document has a value for each required
\* field, and has an optional field exactly when its manifest has it.
C17_EntriesComplete ==
    directory.written =>
        \A i \in 1..Len(directory.plugins) :
            /\ \A k \in 1..Len(REQUIRED_ENTRY_FIELDS) :
                   ~Nullish(directory.plugins[i][REQUIRED_ENTRY_FIELDS[k]])
            /\ \A k \in 1..Len(OPTIONAL_ENTRY_FIELDS) :
                   directory.plugins[i][OPTIONAL_ENTRY_FIELDS[k]] =
                       Get(ManifestOf(directory.plugins[i]),
                           OPTIONAL_ENTRY_FIELDS[k])

\* entries without their timestamps
WithoutTime(entries) ==
    [i \in 1..Len(entries) |-> [entries[i] EXCEPT !.updatedAt = 0]]

\* C18: a run of the builder over the files and answers of the run before
\* it ends as that run did, with the same entries in the same order and
\* the same errors, only the timestamps differing; it starts from empty
\* arrays, and no step changes the submission files.
C18_SameRunSameDirectory ==
    /\ [](pc = "b:exited" =>
            \A n \in 1..Len(runs) :
                /\ exit = runs[n].exit
                /\ errors = runs[n].errors
                /\ WithoutTime(plugins) = WithoutTime(runs[n].plugins)
                /\ net = runs[n].requests
                /\ exit = 0 =>
                       /\ WithoutTime(directory.plugins) =
                              WithoutTime(runs[n].directory.plugins)
                       /\ directory.generatedAt > runs[n].directory.generatedAt)
    /\ [][pc' = "b:loop" /\ pc = "b:start" => plugins' = <<>> /\ errors' = <<>>]_vars
    /\ [][pluginsDir' = pluginsDir /\ remote' = remote]_vars

C18_Witness ==
    /\ pc = "b:exited"
    /\ Len(runs) = 1
    /\ exit = 0
    /\ Len(directory.plugins) = 2
    /\ directory.plugins[1].updatedAt > runs[1].directory.plugins[1].updatedAt
    /\ directory.plugins[1].name # directory.plugins[2].name

\* r is a result for the argument file: it carries the file's base name or
\* the identifier the file declares
ResultFor(r, file) ==
    r.pluginId \in {Str(StripJson(file.filename)),
                    Str(Basename(file.filename, ".json")),
                    Get(file.doc.val, "id")}

\* the requests were issued argument by argument (file by file), and a
\* request that is outstanding is the last one issued, for the argument
\* the loop is at
RequestsInOrder ==
    /\ \A i, j \in 1..Len(net) : i < j => net[i].arg <= net[j].arg
    /\ \A i \in 1..Len(net) : net[i].arg <= argi
    /\ fetch.state = "pending" =>
           /\ net # <<>>
           /\ net[Len(net)] = [arg |-> argi, req |-> Request(fetch)]

\* the validator: between two arguments results holds one result for each
\* argument done, results[i] for argument i
ValidatorInOrder ==
    /\ pc \in {"loop", "exited"} => Len(results) = argi - 1
    /\ \A i \in 1..Len(results) :
           i <= Len(args) /\ ResultFor(results[i], args[i])

\* the place of the file named n in the listing
PlaceOf(n) ==
    CHOOSE k \in 1..Len(Files(pluginsDir)) : Files(pluginsDir)[k].filename = n

\* the builder: the error records are in the order of the listing
BuilderInOrder ==
    Building =>
        \A i, j \in 1..Len(errors) :
            i < j => PlaceOf(errors[i].file) < PlaceOf(errors[j].file)

\* C19: the submissions are processed one at a time in input order: the
\* requests are issued argument by argument with at most one outstanding,
\* the validator's results[i] is the result for argument i, and the
\* builder's error list is in file-listing order.
C19_OneAtATimeInOrder ==
    /\ RequestsInOrder
    /\ ValidatorInOrder
    /\ BuilderInOrder

DigitRun(s) == Len(s) >= 1 /\ \A i \in 1..Len(s) : s[i] \in Digit
SuffixRun(s) ==
    Len(s) >= 1 /\ \A i \in 1..Len(s) : s[i] \in Lower \cup Upper \cup Digit \cup {".", "-"}

\* v is three digit runs separated by dots (the third ending before c),
\* then nothing or "-" and a pre-release (ending before d), then nothing
\* or "+" and build metadata up to the end of v
WellFormedVersion(v) ==
    \E p \in 1..Len(v) :
        /\ v[p] = "."
        /\ DigitRun(SubSeq(v, 1, p - 1))
        /\ \E q \in (p + 1)..Len(v) :
               /\ v[q] = "."
               /\ DigitRun(SubSeq(v, p + 1, q - 1))
               /\ \E c \in (q + 1)..(Len(v) + 1) :
                      /\ DigitRun(SubSeq(v, q + 1, c - 1))
                      /\ \E d \in c..(Len(v) + 1) :
                             /\ \/ d = c
                                \/ /\ v[c] = "-"
                                   /\ SuffixRun(SubSeq(v, c + 1, d - 1))
                             /\ \/ d = Len(v) + 1
                                \/ /\ v[d] = "+"
                                   /\ SuffixRun(SubSeq(v, d + 1, Len(v)))

VersionOf(r) == JsToString(Get(r.manifest, "version"))

\* C21: isValidSemver(v) holds exactly when the whole of v is three
\* non-empty digit runs separated by dots, optionally "-" and a non-empty
\* pre-release, optionally "+" and non-empty build metadata, in that order;
\* the "Version format" check is recorded once and fails exactly when
\* isValidSemver(manifest.version) is false.
C21_SemverFormat ==
    \A r \in PastManifestValid :
        /\ Once(r, "Version format")
        /\ TheCheck(r, "Version format").passed <=> WellFormedVersion(VersionOf(r))
        /\ isValidSemver(VersionOf(r)) <=> WellFormedVersion(VersionOf(r))

C21_Witness ==
    /\ pc = "exited"
    /\ \E r \in PastManifestValid :
           /\ VersionOf(r) = <<"1", ".", "0", ".", "0", "-", "a", "+", "1">>
           /\ PassedCheck(r, "Version format")

IsCountWarning(w) == w[1] = "Plugin requests "
CountWarnings(r) == SelectSeq(r.warnings, IsCountWarning)

\* C22: a result that reached the advisory step holds one permission-count
\* warning, naming the count, when the manifest declares more than 5
\* permissions (duplicates and unknown tokens counted) and none otherwise,
\* whatever "Valid permissions" and the dangerous-permission advisory gave;
\* passed is what the checks alone make it.
C22_PermissionCountAdvisory ==
    \A r \in PastManifestValid :
        /\ Len(CountWarnings(r)) = (IF Len(Declared(r)) > 5 THEN 1 ELSE 0)
        /\ Len(Declared(r)) > 5 =>
               CountWarnings(r)[1] =
                   <<"Plugin requests ", ToString(Len(Declared(r))),
                     " permissions - consider if all are necessary">>
        /\ r.passed <=> NoFailedCheck(r)

C22_Witness ==
    /\ pc = "exited"
    /\ \E r \in PastManifestValid :
           /\ Len(Declared(r)) = 6
           /\ Len(CountWarnings(r)) = 1
           /\ FailedCheck(r, "Valid permissions")
           /\ Len(DangerousWarnings(r)) = 1

NoSlash(u, a, b) == a <= b /\ \A k \in a..b : u[k] # "/"

\* u holds the host marker at i, then an owner up to a, a slash, and a
\* repository segment up to b, which ends u or is followed by a slash
SegmentsAt(u, i, a, b) ==
    /\ HasAt(u, i, HostMarker)
    /\ NoSlash(u, i + Len(HostMarker), a)
    /\ a + 1 <= Len(u) /\ u[a + 1] = "/"
    /\ NoSlash(u, a + 2, b)
    /\ b <= Len(u)
    /\ b = Len(u) \/ u[b + 1] = "/"

Cuts(u) ==
    UNION { UNION { { <<i, a, b>> :
                        b \in {e \in (a + 2)..Len(u) : SegmentsAt(u, i, a, e)} } :
                    a \in {e \in (i + Len(HostMarker))..(Len(u) - 1) :
                               /\ NoSlash(u, i + Len(HostMarker), e)
                               /\ u[e + 1] = "/"} } :
            i \in {k \in 1..Len(u) : HasAt(u, k, HostMarker)} }
\* what the claim says parseGitHubUrl(u) is: the segments of the first
\* such place, the repository name without one trailing ".git"
Segments(u) ==
    LET cs == Cuts(u)
        c == CHOOSE x \in cs : \A d \in cs : x[1] <= d[1]
        seg == SubSeq(u, c[2] + 2, c[3])
    IN IF cs = {}
       THEN [ok |-> FALSE, owner |-> <<>>, repo |-> <<>>]
       ELSE [ok |-> TRUE,
             owner |-> SubSeq(u, c[1] + Len(HostMarker), c[2]),
             repo |-> IF /\ Len(seg) >= 4
                         /\ SubSeq(seg, Len(seg) - 3, Len(seg)) = <<".", "g", "i", "t">>
                      THEN SubSeq(seg, 1, Len(seg) - 4)
                      ELSE seg]

RepoUrl(k) == Get(args[k].doc.val, "repo").v

\* C23: parseGitHubUrl gives the two segments after the first host marker
\* that is followed by two non-empty segments, the repository name without
\* one trailing ".git", and null for every other URL string; every request
\* issued names that owner and repository, and a URL that does not parse
\* fails "Repo accessible" with "Invalid GitHub URL" and no request issued.
C23_ParseGitHubUrl ==
    /\ \A n \in 1..Len(net) :
           LET e == Segments(RepoUrl(net[n].arg))
           IN /\ e.ok
              /\ net[n].req.owner = e.owner
              /\ net[n].req.repo = e.repo
    /\ \A k \in ReturnedIndexes :
           PassedCheck(results[k], "Filename matches ID") =>
               LET u == RepoUrl(k)
                   e == Segments(u)
               IN /\ parseGitHubUrl(u) = e
                  /\ e.ok => RequestsOf(k) # <<>>
                  /\ ~e.ok =>
                         /\ RequestsOf(k) = <<>>
                         /\ Once(results[k], "Repo accessible")
                         /\ TheCheck(results[k], "Repo accessible") =
                                [name |-> "Repo accessible", passed |-> FALSE,
                                 details |-> Str(<<"Invalid GitHub URL: ">> \o u)]

C23_Witness ==
    /\ pc = "exited"
    /\ RepoUrl(1) = HostMarker \o <<"/">> \o HostMarker \o <<"o", "/", "o">>
    /\ Len(net) = 2
    /\ net[1].req.owner = <<"o">>
    /\ net[1].req.repo = <<"o">>

\* the result main creates in its catch: one error and nothing else
FreshErrorResult(r) ==
    /\ Len(r.errors) = 1
    /\ r.checks = <<>>
    /\ r.warnings = <<>>
    /\ r.manifest = Null
    /\ ~r.passed

\* the result validatePlugin is working on holds no error, and a recorded
\* result holds none or is main's fresh error result
ErrorResultsAreFresh ==
    /\ pc \in {"manifest", "entry"} => result.errors = <<>>
    /\ \A i \in 1..Len(results) :
           results[i].errors = <<>> \/ FreshErrorResult(results[i])

\* a step that records an error result records nothing else: the result
\* of a validatePlugin that returned is not recorded beside it
ErrorResultReplaces ==
    (\E i \in (Len(results) + 1)..Len(results') : results'[i].errors # <<>>)
        => Len(results') = Len(results) + 1

\* C24: validatePlugin never adds an error.  A result with errors is the
\* fresh result main creates when validatePlugin throws: one error, no
\* check, no warning, a null manifest, passed false, and it stands in place
\* of the result validatePlugin was building; a result validatePlugin
\* returned holds no error.
C24_ErrorsOnlyFromMain ==
    /\ []ErrorResultsAreFresh
    /\ [][ErrorResultReplaces]_vars

FixedOrder ==
    <<"Valid JSON", "Required fields", "Plugin ID format",
      "Filename matches ID", "Repo accessible", "Manifest found",
      "Manifest valid", "IDs match", "Version format", "Valid permissions">>

NamesOf(r) == [i \in 1..Len(r.checks) |-> r.checks[i].name]

\* C25: in every result validatePlugin returned the names of the checks
\* are a prefix of the fixed order, or the whole of it followed by a failed
\* "Main script accessible"; no name is recorded twice, "Manifest found" is
\* never recorded as failed, and the manifest is attached exactly when
\* "Repo accessible" passed.
C25_ChecksInFixedOrder ==
    \A k \in ReturnedIndexes :
        LET r == results[k]
            n == Len(r.checks)
        IN /\ \/ n <= Len(FixedOrder) /\ NamesOf(r) = SubSeq(FixedOrder, 1, n)
              \/ /\ n = Len(FixedOrder) + 1
                 /\ SubSeq(NamesOf(r), 1, n - 1) = FixedOrder
                 /\ r.checks[n].name = "Main script accessible"
                 /\ ~r.checks[n].passed
           /\ \A i, j \in 1..n : r.checks[i].name = r.checks[j].name => i = j
           /\ ~FailedCheck(r, "Manifest found")
           /\ r.manifest # Null <=> PassedCheck(r, "Repo accessible")

C25_Witness ==
    \E k \in ReturnedIndexes :
        /\ Len(results[k].checks) = 7
        /\ FailedCheck(results[k], "Manifest valid")
        /\ results[k].manifest # Null

\* the requests of one validation, as <<file, branch>> pairs
Attempts(k) ==
    LET q == RequestsOf(k)
    IN [i \in 1..Len(q) |-> <<q[i].req.filePath, q[i].req.branch>>]

\* the order the claim fixes, for an entry file named e
FourAttempts(e) ==
    << <<(<<"manifest.json">>), "main">>, <<(<<"manifest.json">>), "master">>,
       <<e, "main">>, <<e, "master">> >>

\* a is FourAttempts(e) with some attempts left out, where a fallback
\* attempt is never made without the attempt on main before it and the
\* manifest is always tried on main
PolicyOrder(a, e) ==
    \E keep \in SUBSET (1..4) :
        /\ a = SelectSeq(FourAttempts(e),
                         LAMBDA x : \E i \in keep : FourAttempts(e)[i] = x)
        /\ 2 \in keep => 1 \in keep
        /\ 4 \in keep => 3 \in keep
        /\ keep # {} => 1 \in keep

\* C26: every fetch of a validation starts at main, whatever branch served
\* the manifest: the retrieval attempts of one validation are at most the
\* four manifest@main, manifest@master, entry@main, entry@master, in this
\* order, a fallback attempt only right after the attempt on main; an
\* entry file that main serves is the one scanned, with no attempt on
\* master.
C26_EveryFetchStartsAtMain ==
    /\ \A k \in 1..Len(args) : PolicyOrder(Attempts(k), <<"main.js">>)
    /\ fetch.state \in {"resolved", "rejected"} /\ fetch.attempts # <<>> =>
           /\ fetch.attempts[1].branch = "main"
           /\ fetch.attempts[1].status = 200 => Len(fetch.attempts) = 1

C26_Witness ==
    /\ pc = "exited"
    /\ Attempts(1) = << <<(<<"manifest.json">>), "main">>,
                        <<(<<"manifest.json">>), "master">>,
                        <<(<<"main.js">>), "main">> >>
    /\ results # <<>>
    /\ PassedCheck(results[1], "Valid permissions")
    /\ ~HasCheck(results[1], "Main script accessible")

===========================================================================
